---- MODULE Spec2Model ----
(***************************************************************************)
(* Event bus of the Hyprland IPC client (HyprlandClient): the subscriber   *)
(* registry `listeners`, guarded by the RWMutex `eventMux`, the reader     *)
(* goroutine readEvents/dispatchEvent, and the callers of Subscribe,       *)
(* Unsubscribe, Close and StartEventListener.                              *)
(*                                                                         *)
(* Every goroutine is a process with a program counter.  A step of the     *)
(* model is one statement (or one loop iteration) of the Go code, so that  *)
(* every interleaving the mutex allows is explored.                        *)
(***************************************************************************)
EXTENDS Integers, Sequences, FiniteSets, TLC

\* ---- bounds -------------------------------------------------------------
MaxChans  == 2      \* Subscribe calls explored (channels ever made)
MaxEvents == 1      \* interleaving model: events parsed before the stream ends
SmallCap  == 1      \* interleaving model: capacity of the queues
MaxFill   == 102    \* capacity scenario: events parsed before the stream ends
MaxLag    == 2      \* capacity scenario: events a consuming subscriber may
                    \*   leave unread when the next line is scanned

MaxStarts  == 2     \* listener model: StartEventListener calls explored
MaxEmit    == 1     \* listener model: events the compositor emits
MaxLines   == 2     \* line model: lines read before the stream ends
MaxLen     == 5     \* parser model: characters in a line
MaxField   == 2     \* typed model: characters in the data of a line
MaxCalls   == 2     \* command model: commands and queries called
MaxMonitors == 2    \* command model: monitors in a response
MaxData    == 5     \* typed model: fields in a line
MaxPending == 1     \* program model: commands of one kind counted as running
LiveChans  == 1     \* fair model: Subscribe calls explored
LiveEvents == 2     \* fair model: events parsed before the stream ends
                    \*   (more than SmallCap: sends meet full queues)

\* ---- program constants --------------------------------------------------
QueueCap  == 100    \* make(chan HyprlandEvent, 100)

Callers == {"c1", "c2"}
Reader  == "rd"
Procs   == Callers \cup {Reader}
None    == "none"

Foreign == 0                       \* a channel Subscribe never returned
Handles == 0 .. MaxChans           \* 1..MaxChans are made by Subscribe
EOS     == 0                       \* what a receive on a closed, drained
                                   \* channel yields (zero value, ok=false)

VARIABLES
  listeners,   \* hc.listeners: the registry, a slice of channels
  writer,      \* hc.eventMux: goroutine holding the write lock, or None
  readers,     \* hc.eventMux: goroutines holding the read lock
  eventConn,   \* hc.eventConn: "nil", "open" or "closed"
  buf,         \* per channel: the events buffered in it
  closed,      \* per channel: close(ch) has run
  capOf,       \* per channel: its capacity (second argument of make)
  nextCh,      \* the next channel make() returns
  nEv,         \* number of events the reader has parsed so far
  pc,          \* per goroutine: its position in the code
  loc,         \* per goroutine: its local variables (ch, i, n) and, for
               \*   Close, the registry it found when it took the lock
  got,         \* per channel: what its consumer has received so far
  fault,       \* the panic that ended the program, or None
  snap,        \* history: the registry when the running dispatch locked
  tried,       \* history: (channel, length before the attempt) of each
               \*          enqueue attempt of the running dispatch
  afterClose,  \* history: the running dispatch began after a Close returned
  subRet,      \* history: channels Subscribe has returned
  unsubRet,    \* history: channels of Subscribe for which an Unsubscribe
               \*          has returned
  closeRet,    \* history: some Close has returned
  parser,      \* the line parser: a record of the fields defined below
  listener,    \* the listener model: a record of the fields defined below
  handler      \* the HyprlandEventHandler and its goroutines: a record of
               \*   the fields defined below

histVars == <<snap, tried, afterClose, subRet, unsubRet, closeRet>>

\* ---- the line parser ----
\* the line handed to parseEvent last
line == parser.line

\* number of lines handed to parseEvent so far
nLines == parser.nLines

\* the events parseEvent has returned, in order
parsed == parser.parsed

\* ---- the listener model ----
\* the event connections dialed, in order: "open", "eof" (the peer ended it
\* or a read failed) or "closed" (Close() was called on it)
conns == listener.conns

\* the connection hc.eventConn refers to (its position in conns; 0 is nil)
hcConn == listener.hcConn

\* one record per `go hc.readEvents()`
tasks == listener.tasks

\* per connection, the events the compositor has written and no reader has
\* read yet
inbox == listener.inbox

\* number of events the compositor emitted
emitted == listener.emitted

\* per event, how many times it has been enqueued on the queue of the
\* subscriber
enq == listener.enq

\* history: number of StartEventListener calls
nStart == listener.nStart

\* history: the reader goroutines that existed when Close() was called first
closeSaw == listener.closeSaw

\* Close() has run
closedBus == listener.closedBus

\* the value of HYPRLAND_INSTANCE_SIGNATURE when NewHyprlandClient ran
env == listener.env

\* what NewHyprlandClient returned: [client, signature, err]
session == listener.session

\* hc.signature
signature == session.signature

\* the connections sendCommand has dialed, in order: [st, path] with st
\* "open" or "closed"
cmdConns == listener.cmdConns

\* the running or the last call of a command or query: its name q, its
\* position pc, the connection of its sendCommand, the dials, writes and
\* reads sendCommand has made, the results (data, err) of sendCommand and the
\* results ret of the call
cmd == listener.cmd

\* number of commands and queries called
nCalls == listener.nCalls

\* the bubbletea program of the status bar: its model and what the runtime
\* holds for it
program == listener.program

\* ---- the handler ----
\* h.callbacks: per event type, the callbacks registered with On, in
\* registration order (a callback is the number of its registration)
callbacks == handler.callbacks

\* h.events: the queue Start subscribed (Foreign: nil)
hEvents == handler.hEvents

\* h.stopChan has been closed
stopChan == handler.stopChan

\* the handleEvents goroutine: "none" (not started), "select", "process"
\* (inside processEvent) or "returned"
hpc == handler.hpc

\* handleEvents: the event received last
hEv == handler.hEv

\* the handler method a caller is inside: "none", "start", "stop"
hCall == handler.hCall

\* history: the events handed to processEvent, in order
handled == handler.handled

\* history: the invocations `go callback(event)` has started, in the order
\* of the go statements
spawned == handler.spawned

\* history: the invocations that have begun to run (positions in spawned),
\* in the order they began
begun == handler.begun

\* history: the invocations whose callback has returned
ended == handler.ended

\* the callbacks that are closures of a typed registration (OnWorkspaceChange,
\* ...): records [cb, kind]
closures == handler.closures

\* history: the calls the closures have made to the typed callbacks they
\* wrap: records [inv, args]
calls == handler.calls

\* the handleEvents goroutines of a handler that is started more than once:
\* "select" or "returned" each
loops == handler.loops

\* what a running Start found when it was called: the number of dials, of
\* connections and of queues made so far
mark == handler.mark

\* The variables of the line parser, of the listener model and of the
\* handler.
parseVars == <<parser>>

listenVars == <<listener>>

handlerVars == <<handler>>

\* The variables the event bus (dispatchEvent, Subscribe, Unsubscribe, Close)
\* neither reads nor writes.
nonBusVars == <<parser, listener, handler>>

vars == <<listeners, writer, readers, eventConn, buf, closed, capOf, nextCh,
          nEv, pc, loc, got, fault, snap, tried, afterClose, subRet,
          unsubRet, closeRet, parser, listener, handler>>

\* The variables of the event bus and of its single reader.
busVars == <<listeners, writer, readers, eventConn, buf, closed, capOf, nextCh,
             nEv, pc, loc, got, fault, histVars>>

\* ---- helpers ------------------------------------------------------------
Range(s) == {s[k] : k \in 1 .. Len(s)}

Min(a, b) == IF a < b THEN a ELSE b

\* (faulty variant: the tail after the removed element is lost)
RemoveAt_Truncates(s, k) == SubSeq(s, 1, k - 1)

RemoveAt(s, k) == SubSeq(s, 1, k - 1) \o SubSeq(s, k + 1, Len(s))

IndexOf(s, x) ==
  IF x \in Range(s) THEN CHOOSE k \in 1 .. Len(s) :
                            s[k] = x /\ \A j \in 1 .. k - 1 : s[j] # x
                    ELSE 0

NoLocals == [ch |-> Foreign, i |-> 0, n |-> 0, seen |-> {}]

\* A panic ends the program: no goroutine takes a step after it.
Alive == fault = None

\* ---- sync.RWMutex ---------------------------------------------------------
\* (faulty variants: a lock that does not exclude the other side)
Lock_IgnoresReaders(p) == writer = None /\ writer' = p /\ UNCHANGED readers

RLock_IgnoresWriter(p) == readers' = readers \cup {p} /\ UNCHANGED writer

Lock(p)    == writer = None /\ readers = {} /\ writer' = p /\ UNCHANGED readers
Unlock(p)  == writer = p /\ writer' = None /\ UNCHANGED readers
RLock(p)   == writer = None /\ readers' = readers \cup {p} /\ UNCHANGED writer
RUnlock(p) == p \in readers /\ readers' = readers \ {p} /\ UNCHANGED writer

\* ---- channel operations ---------------------------------------------------
\* close(ch): panics on a channel that is already closed.
CloseChan(ch) ==
  IF closed[ch]
    THEN fault' = "close of closed channel" /\ UNCHANGED closed
    ELSE closed' = [closed EXCEPT ![ch] = TRUE] /\ UNCHANGED fault

\* (faulty variant: the capacity test is off by one)
TrySend_OffByOne(ch, ev) ==
  IF closed[ch]
    THEN fault' = "send on closed channel" /\ UNCHANGED buf
    ELSE /\ UNCHANGED fault
         /\ buf' = IF Len(buf[ch]) <= capOf[ch]
                     THEN [buf EXCEPT ![ch] = Append(@, ev)]
                     ELSE buf

\* (faulty variant: a plain send, which waits for room in the queue)
TrySend_Blocks(ch, ev) ==
  IF closed[ch]
    THEN fault' = "send on closed channel" /\ UNCHANGED buf
    ELSE /\ UNCHANGED fault
         /\ Len(buf[ch]) < capOf[ch]
         /\ buf' = [buf EXCEPT ![ch] = Append(@, ev)]

\* select { case ch <- ev: default: }  -- panics on a closed channel,
\* enqueues when there is room, otherwise takes the default branch.
TrySend(ch, ev) ==
  IF closed[ch]
    THEN fault' = "send on closed channel" /\ UNCHANGED buf
    ELSE /\ UNCHANGED fault
         /\ buf' = IF Len(buf[ch]) < capOf[ch]
                     THEN [buf EXCEPT ![ch] = Append(@, ev)]
                     ELSE buf

\* ---- parseEvent -----------------------------------------------------------
\* A string is the sequence of its characters.  The alphabet has two
\* letters, the comma and the character the separator ">>" is made of.
Chars == {"a", "b", ",", ">"}

Delim == <<">", ">">>

Comma == <<",">>

\* The strings of at most n characters.
Strings(n) == UNION {[1 .. k -> Chars] : k \in 0 .. n}

\* sep occurs in s at position i.
OccursAt(s, sep, i) ==
  /\ i >= 1 /\ i + Len(sep) - 1 <= Len(s)
  /\ SubSeq(s, i, i + Len(sep) - 1) = sep

\* strings.Index: the position of the first occurrence of sep in s, 0 when
\* there is none (Go: -1, counting from 0).
Index(s, sep) ==
  IF \E i \in 1 .. Len(s) : OccursAt(s, sep, i)
    THEN CHOOSE i \in 1 .. Len(s) :
           /\ OccursAt(s, sep, i)
           /\ \A j \in 1 .. i - 1 : ~OccursAt(s, sep, j)
    ELSE 0

\* strings.SplitN(s, sep, n) for a non-empty sep: n = 0 gives nothing, n > 0
\* at most n substrings (the last one is the unsplit remainder), n < 0 all.
RECURSIVE SplitN(_, _, _)
SplitN(s, sep, n) ==
  IF n = 0 THEN << >>
  ELSE LET i == Index(s, sep) IN
         IF n = 1 \/ i = 0
           THEN <<s>>
           ELSE <<SubSeq(s, 1, i - 1)>>
                  \o SplitN(SubSeq(s, i + Len(sep), Len(s)), sep, n - 1)

\* strings.Split(s, sep)
Split(s, sep) == SplitN(s, sep, -1)

\* (faulty variant: the line is split at every ">>")
parseEvent_SplitsAll(l) ==
  LET parts == Split(l, Delim) IN
    IF Len(parts) < 2
      THEN << >>
      ELSE <<[Type |-> parts[1], Data |-> Split(parts[2], Comma)]>>

\* (faulty variant: nothing after the ">>" gives no field at all)
parseEvent_NoFieldForEmpty(l) ==
  LET parts == SplitN(l, Delim, 2) IN
    IF Len(parts) # 2
      THEN << >>
      ELSE <<[Type |-> parts[1],
              Data |-> IF parts[2] = << >> THEN << >>
                                           ELSE Split(parts[2], Comma)]>>

\* parseEvent returns a pointer: << >> is nil, <<e>> points to the event e.
parseEvent(l) ==
  LET parts == SplitN(l, Delim, 2) IN
    IF Len(parts) # 2
      THEN << >>
      ELSE <<[Type |-> parts[1], Data |-> Split(parts[2], Comma)]>>

\* The event type "workspace".
Workspace == <<"w", "o", "r", "k", "s", "p", "a", "c", "e">>

\* The event types of the models: "a", "b", "workspace" and the empty string
\* (the Type of the zero HyprlandEvent).
\* The typed registrations, each named by the event type it is registered
\* for.
Kinds ==
  {"workspace", "activewindow", "focusedmon", "openwindow", "closewindow",
   "fullscreen", "createworkspace", "destroyworkspace"}

\* The event type of a typed registration, as a string of characters.
TypeOf(kind) ==
  CASE kind = "workspace"        -> Workspace
    [] kind = "activewindow"     ->
         <<"a", "c", "t", "i", "v", "e", "w", "i", "n", "d", "o", "w">>
    [] kind = "focusedmon"       ->
         <<"f", "o", "c", "u", "s", "e", "d", "m", "o", "n">>
    [] kind = "openwindow"       ->
         <<"o", "p", "e", "n", "w", "i", "n", "d", "o", "w">>
    [] kind = "closewindow"      ->
         <<"c", "l", "o", "s", "e", "w", "i", "n", "d", "o", "w">>
    [] kind = "fullscreen"       ->
         <<"f", "u", "l", "l", "s", "c", "r", "e", "e", "n">>
    [] kind = "createworkspace"  ->
         <<"c", "r", "e", "a", "t", "e">> \o Workspace
    [] kind = "destroyworkspace" ->
         <<"d", "e", "s", "t", "r", "o", "y">> \o Workspace

Types == {<<"a">>, <<"b">>, << >>} \cup {TypeOf(kind) : kind \in Kinds}

\* ---- Init: the client as NewHyprlandClient returns it ---------------------
NewHyprlandClient ==
  /\ listeners = << >>
  /\ writer = None
  /\ readers = {}
  /\ eventConn = "nil"
  /\ buf = [h \in Handles |-> << >>]
  /\ closed = [h \in Handles |-> FALSE]
  /\ capOf = [h \in Handles |-> 0]
  /\ nextCh = 1
  /\ nEv = 0
  /\ pc = [p \in Procs |-> "idle"]
  /\ loc = [p \in Procs |-> NoLocals]
  /\ got = [h \in Handles |-> << >>]
  /\ fault = None
  /\ snap = << >>
  /\ tried = << >>
  /\ afterClose = FALSE
  /\ subRet = {}
  /\ unsubRet = {}
  /\ closeRet = FALSE

\* No line has been read yet.
NoLine == [line |-> << >>, nLines |-> 0, parsed |-> << >>]

\* The nil error.  (A nil pointer is << >> and a pointer to v is <<v>>; a
\* nil slice is the empty sequence.)
Nil == "nil"

\* os.Getenv("HYPRLAND_INSTANCE_SIGNATURE") in the environment e: the value
\* of the variable, "" when it is not set.
Getenv(e) == IF e.set THEN e.value ELSE ""

\* (faulty variant: the empty signature is accepted)
NewClient_AcceptsEmpty(e) ==
  [client |-> <<"client">>, signature |-> Getenv(e), err |-> Nil]

\* NewHyprlandClient: what it returns in the environment e.
NewClient(e) ==
  LET sig == Getenv(e) IN
    IF sig = "" THEN [client |-> << >>, signature |-> "",
                      err |-> "not running in hyprland"]
                ELSE [client |-> <<"client">>, signature |-> sig, err |-> Nil]

\* The nil slice of bytes.
NoData == [n |-> 0, of |-> 0, doc |-> [kind |-> "none", items |-> << >>]]

\* No command or query has been called.
NoCall ==
  [q |-> "none", pc |-> "idle", conn |-> 0, dials |-> 0, writes |-> 0,
   reads |-> 0, data |-> NoData, err |-> Nil,
   ret |-> [val |-> << >>, err |-> Nil]]

\* ---- the status bar program ----
\* The commands of the program: each is run by the runtime in a goroutine of
\* its own and ends by sending one message.
Polls == {"getSystemInfo", "getBatteryInfo", "getNetworkInfo", "getHyprlandInfo"}

Cmds == {"tickCmd"} \cup Polls

\* The type of the message a command sends.
MsgOf(c) ==
  CASE c = "tickCmd"         -> "tickMsg"
    [] c = "getSystemInfo"   -> "sysInfoMsg"
    [] c = "getBatteryInfo"  -> "batteryMsg"
    [] c = "getNetworkInfo"  -> "networkMsg"
    [] c = "getHyprlandInfo" -> "hyprlandMsg"

\* initModel(): one value stands for the fields a message sets together
\* (cpu, memory and disk usage; battery level and state; ...).
initModel ==
  [currTime |-> 0, sysInfo |-> 0, battery |-> 0, network |-> 0,
   hyprland |-> 0, size |-> 0]

\* tea.NewProgram(initModel(), ...): nothing runs yet.  `stopper` is the key
\* for which Update returned tea.Quit.
NewProgram ==
  [status |-> "new", m |-> initModel, running |-> [c \in Cmds |-> 0],
   stopper |-> "none"]

\* The client in the environment e: no connection has been dialed, no reader
\* goroutine started, no command sent.
ListenerIn(e) ==
  [conns |-> << >>, hcConn |-> 0, tasks |-> << >>, inbox |-> << >>,
   emitted |-> 0, enq |-> [k \in 1 .. MaxEmit |-> 0], nStart |-> 0,
   closeSaw |-> {}, closedBus |-> FALSE,
   env |-> e, session |-> NewClient(e), cmdConns |-> << >>, cmd |-> NoCall,
   nCalls |-> 0, program |-> NewProgram]

\* The client of the session "abc123".
NoListener == ListenerIn([set |-> TRUE, value |-> "abc123"])

\* The handler as NewHyprlandEventHandler returns it.
NewHyprlandEventHandler ==
  [callbacks |-> [t \in Types |-> << >>], hEvents |-> Foreign,
   stopChan |-> FALSE, hpc |-> "none", hEv |-> EOS, hCall |-> "none",
   handled |-> << >>, spawned |-> << >>, begun |-> << >>, ended |-> {},
   closures |-> {}, calls |-> << >>, loops |-> << >>,
   mark |-> [nStart |-> 0, conns |-> 0, nextCh |-> 1]]

Init ==
  /\ NewHyprlandClient
  /\ parser = NoLine
  /\ listener = NoListener
  /\ handler = NewHyprlandEventHandler

\* The client and its bus alone: the line parser, the listener and session
\* records and the handler are not part of the models that start here, and
\* no action of these models reads or changes them.
BusInit ==
  /\ NewHyprlandClient
  /\ parser = << >>
  /\ listener = << >>
  /\ handler = << >>

\* ---- StartEventListener ---------------------------------------------------
\* Dial the event socket, store the connection and start the reader
\* goroutine.  (A failed dial returns the error and changes nothing.)  The
\* callers of this model start the listener once.
StartEventListener(p) ==
  /\ Alive
  /\ UNCHANGED nonBusVars
  /\ pc[p] = "idle" /\ pc[Reader] = "idle" /\ eventConn = "nil"
  /\ eventConn' = "open"
  /\ pc' = [pc EXCEPT ![Reader] = "r_scan"]
  /\ UNCHANGED <<listeners, writer, readers, buf, closed, capOf, nextCh, nEv,
                 loc, got, fault>>
  /\ UNCHANGED histVars

\* ---- readEvents -----------------------------------------------------------
\* scanner.Scan() returned a line and parseEvent an event: the event is
\* numbered by its position in the parsed sequence.  A line can still come
\* out of the scanner's buffer after the connection was closed.
readEvents_Scan(limit) ==
  /\ Alive
  /\ UNCHANGED nonBusVars
  /\ pc[Reader] = "r_scan" /\ nEv < limit
  /\ nEv' = nEv + 1
  /\ pc' = [pc EXCEPT ![Reader] = "d_rlock"]
  /\ UNCHANGED <<listeners, writer, readers, eventConn, buf, closed, capOf,
                 nextCh, loc, got, fault>>
  /\ UNCHANGED histVars

\* scanner.Scan() returned false: the connection was closed, the peer ended
\* the stream, or the read failed.  The loop is left.
readEvents_End ==
  /\ Alive
  /\ UNCHANGED nonBusVars
  /\ pc[Reader] = "r_scan"
  /\ pc' = [pc EXCEPT ![Reader] = "r_exit"]
  /\ UNCHANGED <<listeners, writer, readers, eventConn, buf, closed, capOf,
                 nextCh, nEv, loc, got, fault>>
  /\ UNCHANGED histVars

\* (faulty variant: the reader closes every queue and empties the registry
\* when it ends)
readEvents_Exit_ClosesQueues ==
  /\ Alive
  /\ UNCHANGED nonBusVars
  /\ pc[Reader] = "r_exit"
  /\ eventConn' = "closed"
  /\ closed' = [h \in Handles |-> closed[h] \/ h \in Range(listeners)]
  /\ listeners' = << >>
  /\ pc' = [pc EXCEPT ![Reader] = "done"]
  /\ UNCHANGED <<writer, readers, buf, capOf, nextCh, nEv, loc, got, fault>>
  /\ UNCHANGED histVars

\* defer hc.eventConn.Close()
readEvents_Exit ==
  /\ Alive
  /\ UNCHANGED nonBusVars
  /\ pc[Reader] = "r_exit"
  /\ eventConn' = "closed"
  /\ pc' = [pc EXCEPT ![Reader] = "done"]
  /\ UNCHANGED <<listeners, writer, readers, buf, closed, capOf, nextCh, nEv,
                 loc, got, fault>>
  /\ UNCHANGED histVars

\* ---- dispatchEvent --------------------------------------------------------
\* hc.eventMux.RLock(); the range expression hc.listeners is evaluated.
dispatchEvent_RLock ==
  /\ Alive
  /\ UNCHANGED nonBusVars
  /\ pc[Reader] = "d_rlock"
  /\ RLock(Reader)
  /\ loc' = [loc EXCEPT ![Reader] = [ch |-> Foreign, i |-> 1,
                                     n |-> Len(listeners), seen |-> {}]]
  /\ pc' = [pc EXCEPT ![Reader] = "d_loop"]
  /\ snap' = listeners
  /\ tried' = << >>
  /\ afterClose' = closeRet
  /\ UNCHANGED <<listeners, eventConn, buf, closed, capOf, nextCh, nEv, got,
                 fault, subRet, unsubRet, closeRet>>

\* The i-th element of the slice being ranged over (always in range while
\* eventMux excludes the writers).
ListenerAt(i) == IF i <= Len(listeners) THEN listeners[i] ELSE Foreign

\* (faulty variant: the loop is left at the first full queue)
dispatchEvent_Send_BreakOnFull ==
  /\ Alive
  /\ UNCHANGED nonBusVars
  /\ pc[Reader] = "d_loop" /\ loc[Reader].i <= loc[Reader].n
  /\ LET ch == ListenerAt(loc[Reader].i) IN
       /\ TrySend(ch, nEv)
       /\ tried' = Append(tried, [ch |-> ch, len |-> Len(buf[ch])])
       /\ loc' = [loc EXCEPT ![Reader].i =
                    IF Len(buf[ch]) < capOf[ch] THEN @ + 1
                                                ELSE loc[Reader].n + 1]
  /\ UNCHANGED <<listeners, writer, readers, eventConn, closed, capOf, nextCh,
                 nEv, pc, got, snap, afterClose, subRet, unsubRet, closeRet>>

\* One iteration of the loop: a non-blocking send to the i-th listener.
dispatchEvent_Send ==
  /\ Alive
  /\ UNCHANGED nonBusVars
  /\ pc[Reader] = "d_loop" /\ loc[Reader].i <= loc[Reader].n
  /\ LET ch == ListenerAt(loc[Reader].i) IN
       /\ TrySend(ch, nEv)
       /\ tried' = Append(tried, [ch |-> ch, len |-> Len(buf[ch])])
  /\ loc' = [loc EXCEPT ![Reader].i = @ + 1]
  /\ UNCHANGED <<listeners, writer, readers, eventConn, closed, capOf, nextCh,
                 nEv, pc, got, snap, afterClose, subRet, unsubRet, closeRet>>

\* The loop is over: the deferred RUnlock runs and readEvents scans on.
dispatchEvent_RUnlock ==
  /\ Alive
  /\ UNCHANGED nonBusVars
  /\ pc[Reader] = "d_loop" /\ loc[Reader].i > loc[Reader].n
  /\ RUnlock(Reader)
  /\ loc' = [loc EXCEPT ![Reader] = NoLocals]
  /\ pc' = [pc EXCEPT ![Reader] = "r_scan"]
  /\ snap' = << >>
  /\ tried' = << >>
  /\ afterClose' = FALSE
  /\ UNCHANGED <<listeners, eventConn, buf, closed, capOf, nextCh, nEv, got,
                 fault, subRet, unsubRet, closeRet>>

\* ---- Subscribe ------------------------------------------------------------
\* hc.eventMux.Lock(); ch := make(chan HyprlandEvent, c);
\* hc.listeners = append(hc.listeners, ch)
Subscribe_Append(p, c) ==
  /\ Alive
  /\ UNCHANGED nonBusVars
  /\ pc[p] = "idle" /\ nextCh <= MaxChans
  /\ Lock(p)
  /\ capOf' = [capOf EXCEPT ![nextCh] = c]
  /\ listeners' = Append(listeners, nextCh)
  /\ nextCh' = nextCh + 1
  /\ loc' = [loc EXCEPT ![p].ch = nextCh]
  /\ pc' = [pc EXCEPT ![p] = "s_unlock"]
  /\ UNCHANGED <<eventConn, buf, closed, nEv, got, fault>>
  /\ UNCHANGED histVars

\* deferred Unlock; return ch
Subscribe_Unlock(p) ==
  /\ Alive
  /\ UNCHANGED nonBusVars
  /\ pc[p] = "s_unlock"
  /\ Unlock(p)
  /\ subRet' = subRet \cup {loc[p].ch}
  /\ loc' = [loc EXCEPT ![p] = NoLocals]
  /\ pc' = [pc EXCEPT ![p] = "idle"]
  /\ UNCHANGED <<listeners, eventConn, buf, closed, capOf, nextCh, nEv, got,
                 fault, snap, tried, afterClose, unsubRet, closeRet>>

\* ---- Unsubscribe ----------------------------------------------------------
\* The argument is a channel Subscribe returned earlier, or a foreign one.
\* (faulty variant: the channel is found but left in the slice)
Unsubscribe_Find_NoRemove(p, ch) ==
  /\ Alive
  /\ UNCHANGED nonBusVars
  /\ pc[p] = "idle"
  /\ Lock(p)
  /\ loc' = [loc EXCEPT ![p].ch = ch]
  /\ pc' = [pc EXCEPT ![p] = IF IndexOf(listeners, ch) > 0 THEN "u_close"
                                                           ELSE "u_unlock"]
  /\ UNCHANGED <<listeners, eventConn, buf, closed, capOf, nextCh, nEv, got,
                 fault>>
  /\ UNCHANGED histVars

\* (faulty variant: without a match the last element is cut out)
Unsubscribe_Find_RemovesLast(p, ch) ==
  /\ Alive
  /\ UNCHANGED nonBusVars
  /\ pc[p] = "idle"
  /\ Lock(p)
  /\ loc' = [loc EXCEPT ![p].ch = ch]
  /\ LET k == IF ch \in Range(listeners) THEN IndexOf(listeners, ch)
                                         ELSE Len(listeners) IN
       IF k > 0
         THEN /\ listeners' = RemoveAt(listeners, k)
              /\ pc' = [pc EXCEPT ![p] = "u_close"]
         ELSE /\ UNCHANGED listeners
              /\ pc' = [pc EXCEPT ![p] = "u_unlock"]
  /\ UNCHANGED <<eventConn, buf, closed, capOf, nextCh, nEv, got, fault>>
  /\ UNCHANGED histVars

\* hc.eventMux.Lock(), then the loop over hc.listeners: at the first i with
\* listener == ch the element is cut out of the slice; without a match
\* nothing happens.
Unsubscribe_Find(p, ch) ==
  /\ Alive
  /\ UNCHANGED nonBusVars
  /\ pc[p] = "idle"
  /\ Lock(p)
  /\ loc' = [loc EXCEPT ![p].ch = ch]
  /\ LET k == IndexOf(listeners, ch) IN
       IF k > 0
         THEN /\ listeners' = RemoveAt(listeners, k)
              /\ pc' = [pc EXCEPT ![p] = "u_close"]
         ELSE /\ UNCHANGED listeners
              /\ pc' = [pc EXCEPT ![p] = "u_unlock"]
  /\ UNCHANGED <<eventConn, buf, closed, capOf, nextCh, nEv, got, fault>>
  /\ UNCHANGED histVars

\* (faulty variant: the channel is removed but never closed)
Unsubscribe_Close_Skipped(p) ==
  /\ Alive
  /\ UNCHANGED nonBusVars
  /\ pc[p] = "u_close"
  /\ pc' = [pc EXCEPT ![p] = "u_unlock"]
  /\ UNCHANGED <<listeners, writer, readers, eventConn, buf, closed, capOf,
                 nextCh, nEv, loc, got, fault>>
  /\ UNCHANGED histVars

\* close(ch); break
Unsubscribe_Close(p) ==
  /\ Alive
  /\ UNCHANGED nonBusVars
  /\ pc[p] = "u_close"
  /\ CloseChan(loc[p].ch)
  /\ pc' = [pc EXCEPT ![p] = "u_unlock"]
  /\ UNCHANGED <<listeners, writer, readers, eventConn, buf, capOf, nextCh,
                 nEv, loc, got>>
  /\ UNCHANGED histVars

\* deferred Unlock; return
Unsubscribe_Unlock(p) ==
  /\ Alive
  /\ UNCHANGED nonBusVars
  /\ pc[p] = "u_unlock"
  /\ Unlock(p)
  /\ unsubRet' = unsubRet \cup ({loc[p].ch} \ {Foreign})
  /\ loc' = [loc EXCEPT ![p] = NoLocals]
  /\ pc' = [pc EXCEPT ![p] = "idle"]
  /\ UNCHANGED <<listeners, eventConn, buf, closed, capOf, nextCh, nEv, got,
                 fault, snap, tried, afterClose, subRet, closeRet>>

\* ---- Close ----------------------------------------------------------------
\* if hc.eventConn != nil { hc.eventConn.Close() }
Close_Conn(p) ==
  /\ Alive
  /\ UNCHANGED nonBusVars
  /\ pc[p] = "idle"
  /\ eventConn' = IF eventConn = "nil" THEN "nil" ELSE "closed"
  /\ pc' = [pc EXCEPT ![p] = "c_lock"]
  /\ UNCHANGED <<listeners, writer, readers, buf, closed, capOf, nextCh, nEv,
                 loc, got, fault>>
  /\ UNCHANGED histVars

\* hc.eventMux.Lock(); the range expression hc.listeners is evaluated.
Close_Lock(p) ==
  /\ Alive
  /\ UNCHANGED nonBusVars
  /\ pc[p] = "c_lock"
  /\ Lock(p)
  /\ loc' = [loc EXCEPT ![p] = [ch |-> Foreign, i |-> 1,
                                n |-> Len(listeners),
                                seen |-> Range(listeners)]]
  /\ pc' = [pc EXCEPT ![p] = "c_loop"]
  /\ UNCHANGED <<listeners, eventConn, buf, closed, capOf, nextCh, nEv, got,
                 fault>>
  /\ UNCHANGED histVars

\* One iteration of the loop: close(ch) for the i-th listener.
Close_Loop(p) ==
  /\ Alive
  /\ UNCHANGED nonBusVars
  /\ pc[p] = "c_loop" /\ loc[p].i <= loc[p].n
  /\ CloseChan(ListenerAt(loc[p].i))
  /\ loc' = [loc EXCEPT ![p].i = @ + 1]
  /\ UNCHANGED <<listeners, writer, readers, eventConn, buf, capOf, nextCh,
                 nEv, pc, got>>
  /\ UNCHANGED histVars

\* (faulty variant: the closed channels stay in the registry)
Close_Nil_Keeps(p) ==
  /\ Alive
  /\ UNCHANGED nonBusVars
  /\ pc[p] = "c_loop" /\ loc[p].i > loc[p].n
  /\ pc' = [pc EXCEPT ![p] = "c_unlock"]
  /\ UNCHANGED <<listeners, writer, readers, eventConn, buf, closed, capOf,
                 nextCh, nEv, loc, got, fault>>
  /\ UNCHANGED histVars

\* hc.listeners = nil
Close_Nil(p) ==
  /\ Alive
  /\ UNCHANGED nonBusVars
  /\ pc[p] = "c_loop" /\ loc[p].i > loc[p].n
  /\ listeners' = << >>
  /\ pc' = [pc EXCEPT ![p] = "c_unlock"]
  /\ UNCHANGED <<writer, readers, eventConn, buf, closed, capOf, nextCh, nEv,
                 loc, got, fault>>
  /\ UNCHANGED histVars

\* hc.eventMux.Unlock(); return
Close_Unlock(p) ==
  /\ Alive
  /\ UNCHANGED nonBusVars
  /\ pc[p] = "c_unlock"
  /\ Unlock(p)
  /\ closeRet' = TRUE
  /\ loc' = [loc EXCEPT ![p] = NoLocals]
  /\ pc' = [pc EXCEPT ![p] = "idle"]
  /\ UNCHANGED <<listeners, eventConn, buf, closed, capOf, nextCh, nEv, got,
                 fault, snap, tried, afterClose, subRet, unsubRet>>

\* (faulty variant: the newest buffered event is taken, not the oldest)
Recv_Newest(h) ==
  /\ Alive
  /\ UNCHANGED nonBusVars
  /\ h \in subRet
  /\ \/ /\ buf[h] # << >>
        /\ got' = [got EXCEPT ![h] = Append(@, buf[h][Len(buf[h])])]
        /\ buf' = [buf EXCEPT ![h] = SubSeq(@, 1, Len(@) - 1)]
     \/ /\ buf[h] = << >> /\ closed[h]
        /\ EOS \notin Range(got[h])
        /\ got' = [got EXCEPT ![h] = Append(@, EOS)]
        /\ UNCHANGED buf
  /\ UNCHANGED <<listeners, writer, readers, eventConn, closed, capOf, nextCh,
                 nEv, pc, loc, fault>>
  /\ UNCHANGED histVars

\* ---- the consumer of a subscriber queue -----------------------------------
\* event, ok := <-ch on a channel Subscribe returned: the oldest buffered
\* event, or end-of-stream once the channel is closed and drained; the
\* receive blocks while the channel is open and empty.
Recv(h) ==
  /\ Alive
  /\ UNCHANGED nonBusVars
  /\ h \in subRet
  /\ \/ /\ buf[h] # << >>
        /\ got' = [got EXCEPT ![h] = Append(@, Head(buf[h]))]
        /\ buf' = [buf EXCEPT ![h] = Tail(@)]
     \/ /\ buf[h] = << >> /\ closed[h]
        /\ EOS \notin Range(got[h])
        /\ got' = [got EXCEPT ![h] = Append(@, EOS)]
        /\ UNCHANGED buf
  /\ UNCHANGED <<listeners, writer, readers, eventConn, closed, capOf, nextCh,
                 nEv, pc, loc, fault>>
  /\ UNCHANGED histVars

\* ---- the interleaving model -----------------------------------------------
\* Two caller goroutines, the reader goroutine and the consumers, with
\* queues of capacity SmallCap.
Next ==
  \/ \E p \in Callers : StartEventListener(p)
  \/ readEvents_Scan(MaxEvents)
  \/ readEvents_End
  \/ readEvents_Exit
  \/ dispatchEvent_RLock
  \/ dispatchEvent_Send
  \/ dispatchEvent_RUnlock
  \/ \E p \in Callers : Subscribe_Append(p, SmallCap)
  \/ \E p \in Callers : Subscribe_Unlock(p)
  \/ \E p \in Callers : \E ch \in subRet \cup {Foreign} :
       Unsubscribe_Find(p, ch)
  \/ \E p \in Callers : Unsubscribe_Close(p)
  \/ \E p \in Callers : Unsubscribe_Unlock(p)
  \/ \E p \in Callers : Close_Conn(p)
  \/ \E p \in Callers : Close_Lock(p)
  \/ \E p \in Callers : Close_Loop(p)
  \/ \E p \in Callers : Close_Nil(p)
  \/ \E p \in Callers : Close_Unlock(p)
  \/ \E h \in Handles : Recv(h)

Spec == BusInit /\ [][Next]_vars

\* ---- the capacity scenario ------------------------------------------------
\* Queues of the real capacity.  Caller c1 subscribes MaxChans times and then
\* starts the listener; the reader dispatches up to MaxFill events.  The
\* consumer of channel 1 is stalled: it reads nothing until the client has been
\* closed.  The consumers of the other channels keep consuming: the next
\* line arrives only when each of them has fewer than MaxLag events unread.
\* When the reader has ended, c1 closes the client and every consumer drains
\* its queue.
Stalled == 1

Consuming == 2 .. MaxChans

FillNext ==
  \/ Subscribe_Append("c1", QueueCap)
  \/ Subscribe_Unlock("c1")
  \/ nextCh > MaxChans /\ StartEventListener("c1")
  \/ /\ \A h \in Consuming : Len(buf[h]) < MaxLag
     /\ readEvents_Scan(MaxFill)
  \/ readEvents_End
  \/ readEvents_Exit
  \/ dispatchEvent_RLock
  \/ dispatchEvent_Send
  \/ dispatchEvent_RUnlock
  \/ pc[Reader] = "done" /\ ~closeRet /\ Close_Conn("c1")
  \/ Close_Lock("c1")
  \/ Close_Loop("c1")
  \/ Close_Nil("c1")
  \/ Close_Unlock("c1")
  \/ \E h \in Consuming : Recv(h)
  \/ closeRet /\ Recv(Stalled)

SpecFill == BusInit /\ [][FillNext]_vars

\* ---- the fair model -------------------------------------------------------
\* Two callers and the reader, with more events than a queue holds and no
\* consumer reading (a receive takes no lock; it only makes room), under the
\* scheduling the Go runtime gives: a goroutine that can take its next step
\* takes it (WF), and a goroutine waiting for eventMux gets it when it is
\* released again and again (SF: sync.RWMutex starves neither writers nor
\* readers).  Nothing obliges a caller to start a call, or the peer to send a
\* line or to end the stream.
LiveNext ==
  \/ \E p \in Callers : StartEventListener(p)
  \/ readEvents_Scan(LiveEvents)
  \/ readEvents_End
  \/ readEvents_Exit
  \/ dispatchEvent_RLock
  \/ dispatchEvent_Send
  \/ dispatchEvent_RUnlock
  \/ \E p \in Callers : nextCh <= LiveChans /\ Subscribe_Append(p, SmallCap)
  \/ \E p \in Callers : Subscribe_Unlock(p)
  \/ \E p \in Callers : \E ch \in subRet \cup {Foreign} :
       Unsubscribe_Find(p, ch)
  \/ \E p \in Callers : Unsubscribe_Close(p)
  \/ \E p \in Callers : Unsubscribe_Unlock(p)
  \/ \E p \in Callers : Close_Conn(p)
  \/ \E p \in Callers : Close_Lock(p)
  \/ \E p \in Callers : Close_Loop(p)
  \/ \E p \in Callers : Close_Nil(p)
  \/ \E p \in Callers : Close_Unlock(p)

\* The steps of a call that hold eventMux or need nothing.
CallerRuns(p) ==
  \/ Subscribe_Unlock(p)
  \/ Unsubscribe_Close(p)
  \/ Unsubscribe_Unlock(p)
  \/ Close_Loop(p)
  \/ Close_Nil(p)
  \/ Close_Unlock(p)

\* The steps of dispatchEvent once it holds the read lock.
DispatchRuns == dispatchEvent_Send \/ dispatchEvent_RUnlock

Fairness ==
  /\ \A p \in Callers : WF_vars(CallerRuns(p)) /\ SF_vars(Close_Lock(p))
  /\ SF_vars(dispatchEvent_RLock)
  /\ WF_vars(DispatchRuns)

SpecLive == BusInit /\ [][LiveNext]_vars /\ Fairness

\* ---- the parser model -----------------------------------------------------
\* parseEvent applied once to any line of at most MaxLen characters.
ParseInit ==
  /\ NewHyprlandClient
  /\ parser \in {[NoLine EXCEPT !.line = l] : l \in Strings(MaxLen)}
  /\ listener = NoListener
  /\ handler = NewHyprlandEventHandler

parseEvent_Call ==
  /\ Alive
  /\ nLines = 0
  /\ parser' = [parser EXCEPT !.nLines = 1,
                              !.parsed = parsed \o parseEvent(line)]
  /\ UNCHANGED <<busVars, listenVars, handlerVars>>

ParseNext ==
  \/ parseEvent_Call

SpecParse == ParseInit /\ [][ParseNext]_vars

\* ---- the line model -------------------------------------------------------
\* readEvents with the lines it reads: some hold no ">>", the others are
\* events of type "a", of type "b" and of the empty type.
SampleLines ==
  { << >>, <<"a">>, <<"a", ">">>, <<"a", ",", "b">>,
    <<"a", ">", ">", "b">>, <<"a", ">", ">", "a", ",", "b">>,
    <<"b", ">", ">">>, <<">", ">", "a">> }

\* (faulty variant: a line that is no event ends the read loop)
readEvents_ScanLine_StopsOnNoise(l, limit) ==
  /\ Alive
  /\ pc[Reader] = "r_scan" /\ nLines < limit
  /\ LET event == parseEvent(l) IN
       /\ parser' = [line |-> l, nLines |-> nLines + 1,
                     parsed |-> parsed \o event]
       /\ nEv' = nEv + Len(event)
       /\ pc' = IF event = << >> THEN [pc EXCEPT ![Reader] = "r_exit"]
                                 ELSE [pc EXCEPT ![Reader] = "d_rlock"]
  /\ UNCHANGED <<listeners, writer, readers, eventConn, buf, closed, capOf,
                 nextCh, loc, got, fault>>
  /\ UNCHANGED <<histVars, listenVars, handlerVars>>

\* scanner.Scan() returned the line l; event := hc.parseEvent(line); when
\* event is nil the loop scans on, otherwise dispatchEvent(*event) is
\* called with the event, numbered by its position in the parsed sequence.
readEvents_ScanLine(l, limit) ==
  /\ Alive
  /\ pc[Reader] = "r_scan" /\ nLines < limit
  /\ LET event == parseEvent(l) IN
       /\ parser' = [line |-> l, nLines |-> nLines + 1,
                     parsed |-> parsed \o event]
       /\ nEv' = nEv + Len(event)
       /\ pc' = IF event = << >> THEN pc
                                 ELSE [pc EXCEPT ![Reader] = "d_rlock"]
  /\ UNCHANGED <<listeners, writer, readers, eventConn, buf, closed, capOf,
                 nextCh, loc, got, fault>>
  /\ UNCHANGED <<histVars, listenVars, handlerVars>>

ReadNext ==
  \/ Subscribe_Append("c1", QueueCap)
  \/ Subscribe_Unlock("c1")
  \/ StartEventListener("c1")
  \/ \E l \in SampleLines : readEvents_ScanLine(l, MaxLines)
  \/ readEvents_End
  \/ readEvents_Exit
  \/ dispatchEvent_RLock
  \/ dispatchEvent_Send
  \/ dispatchEvent_RUnlock
  \/ \E h \in Handles : Recv(h)

SpecRead == Init /\ [][ReadNext]_vars

\* ---- the listener model ---------------------------------------------------
\* StartEventListener called any number of times (directly, or as the first
\* statement of HyprlandEventHandler.Start), Close, the reader goroutines
\* and the compositor.  Every successful call dials a connection of its own,
\* stores it in hc.eventConn and starts a reader goroutine of its own; the
\* compositor writes every event to every connection a client holds open.
\* dispatchEvent is taken as one step, and one subscriber is registered until
\* Close: its queue (capacity QueueCap) gets every dispatched event.
Conns == 1 .. Len(conns)

Tasks == 1 .. Len(tasks)

Running == {t \in Tasks : tasks[t].st # "done"}

\* A goroutine that `go hc.readEvents()` has just started.
NewTask == [st |-> "spawned", deferred |-> 0, scanning |-> 0]

\* net.Dial succeeded.
StartEventListener_Dial ==
  /\ nStart < MaxStarts
  /\ listener' = [listener EXCEPT !.nStart = @ + 1,
                                  !.conns = Append(@, "open"),
                                  !.inbox = Append(@, << >>),
                                  !.hcConn = Len(conns) + 1,
                                  !.tasks = Append(@, NewTask)]
  /\ UNCHANGED <<busVars, parseVars, handlerVars>>

\* (faulty variant: the reader goroutine is started although the dial failed)
StartEventListener_DialFails_StartsReader ==
  /\ nStart < MaxStarts
  /\ listener' = [listener EXCEPT !.nStart = @ + 1,
                                  !.tasks = Append(@, NewTask)]
  /\ UNCHANGED <<busVars, parseVars, handlerVars>>

\* net.Dial failed: the error is returned.
StartEventListener_DialFails ==
  /\ nStart < MaxStarts
  /\ listener' = [listener EXCEPT !.nStart = @ + 1]
  /\ UNCHANGED <<busVars, parseVars, handlerVars>>

\* defer hc.eventConn.Close(): the receiver is evaluated now.
readEvents_Defer(t) ==
  /\ tasks[t].st = "spawned"
  /\ listener' = [listener EXCEPT !.tasks[t].st = "deferred",
                                  !.tasks[t].deferred = hcConn]
  /\ UNCHANGED <<busVars, parseVars, handlerVars>>

\* scanner := bufio.NewScanner(hc.eventConn): hc.eventConn is read again.
readEvents_NewScanner(t) ==
  /\ tasks[t].st = "deferred"
  /\ listener' = [listener EXCEPT !.tasks[t].st = "scanning",
                                  !.tasks[t].scanning = hcConn]
  /\ UNCHANGED <<busVars, parseVars, handlerVars>>

\* scanner.Scan() returned an event line; dispatchEvent enqueues the event
\* on the queue of the subscriber unless Close has emptied the registry.
readEvents_Line(t) ==
  /\ tasks[t].st = "scanning"
  /\ LET k == tasks[t].scanning IN
       /\ inbox[k] # << >>
       /\ listener' =
            [listener EXCEPT
               !.inbox[k] = Tail(@),
               !.enq = IF closedBus THEN @
                                    ELSE [@ EXCEPT ![Head(inbox[k])] = @ + 1]]
  /\ UNCHANGED <<busVars, parseVars, handlerVars>>

\* scanner.Scan() returned false: the connection was closed or has ended.
readEvents_Stop(t) ==
  /\ tasks[t].st = "scanning"
  /\ conns[tasks[t].scanning] # "open"
  /\ listener' = [listener EXCEPT !.tasks[t].st = "exit"]
  /\ UNCHANGED <<busVars, parseVars, handlerVars>>

\* (faulty variant: the reader dials again when its loop has ended)
readEvents_Return_Redials(t) ==
  /\ tasks[t].st = "exit"
  /\ Len(conns) < MaxStarts
  /\ listener' =
       [listener EXCEPT
          !.conns = Append([@ EXCEPT ![tasks[t].deferred] = "closed"], "open"),
          !.inbox = Append(@, << >>),
          !.hcConn = Len(conns) + 1,
          !.tasks = Append([@ EXCEPT ![t].st = "done"], NewTask)]
  /\ UNCHANGED <<busVars, parseVars, handlerVars>>

\* readEvents returns: the deferred Close() runs on the connection the
\* defer statement found.
readEvents_Return(t) ==
  /\ tasks[t].st = "exit"
  /\ listener' = [listener EXCEPT !.conns[tasks[t].deferred] = "closed",
                                  !.tasks[t].st = "done"]
  /\ UNCHANGED <<busVars, parseVars, handlerVars>>

\* The compositor emits an event: a line is written to every open connection.
Compositor_Emit ==
  /\ emitted < MaxEmit
  /\ listener' =
       [listener EXCEPT
          !.emitted = @ + 1,
          !.inbox = [k \in Conns |-> IF conns[k] = "open"
                                       THEN Append(inbox[k], emitted + 1)
                                       ELSE inbox[k]]]
  /\ UNCHANGED <<busVars, parseVars, handlerVars>>

\* The peer ends the connection k, or a read on it fails.
Peer_Ends(k) ==
  /\ conns[k] = "open"
  /\ listener' = [listener EXCEPT !.conns[k] = "eof"]
  /\ UNCHANGED <<busVars, parseVars, handlerVars>>

\* Close(): hc.eventConn.Close() when hc.eventConn is not nil; every queue is
\* closed and the registry emptied.
Close_Listener ==
  /\ listener' =
       [listener EXCEPT
          !.conns = IF hcConn = 0 THEN @ ELSE [@ EXCEPT ![hcConn] = "closed"],
          !.closedBus = TRUE,
          !.closeSaw = IF closedBus THEN @ ELSE Running]
  /\ UNCHANGED <<busVars, parseVars, handlerVars>>

ListenNext ==
  \/ StartEventListener_Dial
  \/ StartEventListener_DialFails
  \/ \E t \in Tasks : readEvents_Defer(t)
  \/ \E t \in Tasks : readEvents_NewScanner(t)
  \/ \E t \in Tasks : readEvents_Line(t)
  \/ \E t \in Tasks : readEvents_Stop(t)
  \/ \E t \in Tasks : readEvents_Return(t)
  \/ Compositor_Emit
  \/ \E k \in Conns : Peer_Ends(k)
  \/ Close_Listener

SpecListen == Init /\ [][ListenNext]_vars

\* ---- the handler model ----------------------------------------------------
\* One HyprlandEventHandler on a fresh client.  Caller c1 registers the
\* callbacks of Registrations with On, calls Start and may call Stop once
\* afterwards; caller c2 may Close the client once the handler is started.
\* The handler's queue is the only subscriber queue; the lines read are
\* events, one line per type.
EventLines ==
  { <<"a", ">", ">", "b">>, <<"b", ">", ">">>, <<">", ">", "a">> }

\* The types of the On calls, in order: two callbacks for "a", one for the
\* empty type, none for "b".
Registrations == << <<"a">>, <<"a">>, << >> >>

\* The HyprlandEvent with number n: what parseEvent returned, or the zero
\* value a receive on a closed, drained channel yields.
EventOf(n) == IF n = EOS THEN [Type |-> << >>, Data |-> << >>] ELSE parsed[n]

NumCallbacks == Cardinality(UNION {Range(callbacks[t]) : t \in Types})

\* On(eventType, callback)
On(t) ==
  /\ Alive
  /\ handler' = [handler EXCEPT !.callbacks[t] = Append(@, NumCallbacks + 1)]
  /\ UNCHANGED <<busVars, parseVars, listenVars>>

\* Start is entered.  Its statements follow: h.client.StartEventListener(),
\* h.events = h.client.Subscribe() and `go h.handleEvents()`.
Start_Enter(p) ==
  /\ Alive
  /\ hCall = "none" /\ pc[p] = "idle"
  /\ hpc = "none" /\ eventConn = "nil"
  /\ handler' = [handler EXCEPT !.hCall = "start"]
  /\ UNCHANGED <<busVars, parseVars, listenVars>>

\* Subscribe has returned the queue: h.events = ...; go h.handleEvents();
\* return nil
Start_Go(p) ==
  /\ Alive
  /\ hCall = "start" /\ pc[p] = "idle" /\ nextCh > 1
  /\ handler' = [handler EXCEPT !.hEvents = nextCh - 1,
                                !.hpc = "select",
                                !.hCall = "none"]
  /\ UNCHANGED <<busVars, parseVars, listenVars>>

\* Stop: close(h.stopChan); the call h.client.Unsubscribe(h.events) follows.
Stop_CloseStopChan(p) ==
  /\ Alive
  /\ hCall = "none" /\ pc[p] = "idle"
  /\ IF stopChan
       THEN fault' = "close of closed channel h.stopChan" /\ UNCHANGED handler
       ELSE /\ handler' = [handler EXCEPT !.stopChan = TRUE, !.hCall = "stop"]
            /\ UNCHANGED fault
  /\ UNCHANGED <<listeners, writer, readers, eventConn, buf, closed, capOf,
                 nextCh, nEv, pc, loc, got, histVars>>
  /\ UNCHANGED <<parseVars, listenVars>>

\* Unsubscribe has returned: Stop returns.
Stop_Return(p) ==
  /\ Alive
  /\ hCall = "stop" /\ pc[p] = "idle" /\ hEvents \in unsubRet
  /\ handler' = [handler EXCEPT !.hCall = "none"]
  /\ UNCHANGED <<busVars, parseVars, listenVars>>

\* handleEvents: select takes `case event := <-h.events`.  The case is ready
\* when the queue holds an event and when the queue is closed: the receive
\* then yields the zero HyprlandEvent (the second result is not asked for).
\* The model follows the loop up to its first receive on the closed queue.
handleEvents_Receive ==
  /\ Alive
  /\ hpc = "select" /\ hEvents # Foreign
  /\ \/ /\ buf[hEvents] # << >>
        /\ handler' = [handler EXCEPT !.hEv = Head(buf[hEvents]),
                                      !.hpc = "process"]
        /\ buf' = [buf EXCEPT ![hEvents] = Tail(@)]
     \/ /\ buf[hEvents] = << >> /\ closed[hEvents]
        /\ EOS \notin Range(handled)
        /\ handler' = [handler EXCEPT !.hEv = EOS, !.hpc = "process"]
        /\ UNCHANGED buf
  /\ UNCHANGED <<listeners, writer, readers, eventConn, closed, capOf, nextCh,
                 nEv, pc, loc, got, fault, histVars>>
  /\ UNCHANGED <<parseVars, listenVars>>

\* (faulty variant: the stop case is taken only when the other case is not
\* ready)
handleEvents_Stopped_Last ==
  /\ Alive
  /\ hpc = "select" /\ stopChan
  /\ hEvents # Foreign => (buf[hEvents] = << >> /\ ~closed[hEvents])
  /\ handler' = [handler EXCEPT !.hpc = "returned"]
  /\ UNCHANGED <<busVars, parseVars, listenVars>>

\* handleEvents: select takes `case <-h.stopChan: return`.
handleEvents_Stopped ==
  /\ Alive
  /\ hpc = "select" /\ stopChan
  /\ handler' = [handler EXCEPT !.hpc = "returned"]
  /\ UNCHANGED <<busVars, parseVars, listenVars>>

\* (faulty variant: the callbacks of every type are started)
Invocations_AnyType(n) ==
  LET cbs == callbacks[<<"a">>] \o callbacks[<<"b">>] \o callbacks[<< >>] IN
    [i \in 1 .. Len(cbs) |-> [cb |-> cbs[i], ev |-> n]]

\* The invocations one event starts: one per callback of its type, in the
\* order of registration.
Invocations(n) ==
  LET cbs == callbacks[EventOf(n).Type] IN
    [i \in 1 .. Len(cbs) |-> [cb |-> cbs[i], ev |-> n]]

\* processEvent(event): callbacks := h.callbacks[event.Type] under h.mu, then
\* `go callback(event)` for each of them.
processEvent ==
  /\ Alive
  /\ hpc = "process"
  /\ handler' = [handler EXCEPT !.handled = Append(@, hEv),
                                !.spawned = @ \o Invocations(hEv),
                                !.hpc = "select"]
  /\ UNCHANGED <<busVars, parseVars, listenVars>>

\* The goroutine of the i-th invocation begins to run callback(event).
callback_Begin(i) ==
  /\ Alive
  /\ i \in 1 .. Len(spawned) /\ i \notin Range(begun)
  /\ handler' = [handler EXCEPT !.begun = Append(@, i)]
  /\ UNCHANGED <<busVars, parseVars, listenVars>>

HandlerNext ==
  \/ /\ hCall = "none" /\ hpc = "none" /\ NumCallbacks < Len(Registrations)
     /\ On(Registrations[NumCallbacks + 1])
  \/ NumCallbacks = Len(Registrations) /\ Start_Enter("c1")
  \/ hCall = "start" /\ StartEventListener("c1")
  \/ hCall = "start" /\ eventConn # "nil" /\ nextCh = 1
       /\ Subscribe_Append("c1", QueueCap)
  \/ Subscribe_Unlock("c1")
  \/ Start_Go("c1")
  \/ hpc # "none" /\ ~stopChan /\ Stop_CloseStopChan("c1")
  \/ hCall = "stop" /\ hEvents \notin unsubRet /\ Unsubscribe_Find("c1", hEvents)
  \/ Unsubscribe_Close("c1")
  \/ Unsubscribe_Unlock("c1")
  \/ Stop_Return("c1")
  \/ hpc # "none" /\ ~closeRet /\ Close_Conn("c2")
  \/ Close_Lock("c2")
  \/ Close_Loop("c2")
  \/ Close_Nil("c2")
  \/ Close_Unlock("c2")
  \/ \E l \in EventLines : hpc # "none" /\ readEvents_ScanLine(l, MaxLines)
  \/ dispatchEvent_RLock
  \/ dispatchEvent_Send
  \/ dispatchEvent_RUnlock
  \/ handleEvents_Receive
  \/ handleEvents_Stopped
  \/ processEvent
  \/ \E i \in 1 .. Len(spawned) : callback_Begin(i)

SpecHandler == Init /\ [][HandlerNext]_vars

\* ==== the command channel and the queries ===================================
\* The queries that decode the response, the query built on GetMonitors and
\* one of the commands that return the error only.
Queries ==
  {"GetActiveWorkspace", "GetWorkspaces", "GetActiveWindow", "GetWindows",
   "GetMonitors"}

Commands == Queries \cup {"GetActiveMonitor", "ToggleFullscreen"}

\* The command string each of them sends.
CommandOf(q) ==
  CASE q = "GetActiveWorkspace" -> "j/activeworkspace"
    [] q = "GetWorkspaces"      -> "j/workspaces"
    [] q = "GetActiveWindow"    -> "j/activewindow"
    [] q = "GetWindows"         -> "j/clients"
    [] q = "GetMonitors"        -> "j/monitors"
    [] q = "GetActiveMonitor"   -> "j/monitors"
    [] q = "ToggleFullscreen"   -> "dispatch fullscreen"

\* socketPath := fmt.Sprintf("/tmp/hypr/%s/.socket.sock", hc.signature)
SocketPath == <<"/tmp/hypr/", signature, "/.socket.sock">>

\* make([]byte, 16384)
BufSize == 16384

\* What the bytes of a read are as a JSON text: an object, the value null,
\* an array of monitor objects (each with its focused flag; the arrays of
\* workspaces and windows are arrays of objects alike) or something
\* encoding/json rejects for every target, such as "unknown request" or a
\* document cut short.
MonitorLists ==
  UNION {[1 .. k -> [Focused : BOOLEAN]] : k \in 0 .. MaxMonitors}

Documents ==
  {[kind |-> k, items |-> << >>] : k \in {"object", "null", "garbage"}}
    \cup {[kind |-> "array", items |-> ms] : ms \in MonitorLists}

\* The lengths of the responses the server sends, and the lengths a single
\* Read of a response of r bytes may return: at least one byte, at most
\* what is there and what the buffer holds.
ResponseLens == {1, BufSize, BufSize + 1}

ReadLens(r) == {n \in {1, BufSize - 1, BufSize, r} : n <= Min(r, BufSize)}

\* A command or a query is called.
Call(q) ==
  /\ Alive
  /\ session.client # << >>
  /\ cmd.pc \in {"idle", "done"} /\ nCalls < MaxCalls
  /\ listener' = [listener EXCEPT !.cmd = [NoCall EXCEPT !.q = q,
                                                          !.pc = "dial"],
                                  !.nCalls = @ + 1]
  /\ UNCHANGED <<busVars, parseVars, handlerVars>>

\* sendCommand: net.Dial succeeded; defer conn.Close()
sendCommand_Dial ==
  /\ Alive
  /\ cmd.pc = "dial"
  /\ listener' =
       [listener EXCEPT
          !.cmdConns = Append(@, [st |-> "open", path |-> SocketPath]),
          !.cmd.conn = Len(cmdConns) + 1,
          !.cmd.dials = @ + 1,
          !.cmd.pc = "write"]
  /\ UNCHANGED <<busVars, parseVars, handlerVars>>

\* (faulty variant: a failed dial is tried again)
sendCommand_DialFails_Retries ==
  /\ Alive
  /\ cmd.pc = "dial"
  /\ listener' =
       [listener EXCEPT
          !.cmd.dials = @ + 1,
          !.cmd.err = IF cmd.dials = 0 THEN @
                      ELSE "failed to connect to hyprland",
          !.cmd.pc = IF cmd.dials = 0 THEN "dial" ELSE "returned"]
  /\ UNCHANGED <<busVars, parseVars, handlerVars>>

\* sendCommand: net.Dial failed:
\* return nil, fmt.Errorf("failed to connect to hyprland")
sendCommand_DialFails ==
  /\ Alive
  /\ cmd.pc = "dial"
  /\ listener' = [listener EXCEPT
                    !.cmd.dials = @ + 1,
                    !.cmd.err = "failed to connect to hyprland",
                    !.cmd.pc = "returned"]
  /\ UNCHANGED <<busVars, parseVars, handlerVars>>

\* sendCommand: conn.Write([]byte(command)) succeeded.
sendCommand_Write ==
  /\ Alive
  /\ cmd.pc = "write"
  /\ listener' = [listener EXCEPT !.cmd.writes = @ + 1, !.cmd.pc = "read"]
  /\ UNCHANGED <<busVars, parseVars, handlerVars>>

\* (faulty variant: the connection is not closed after a write error)
sendCommand_WriteFails_Leaks ==
  /\ Alive
  /\ cmd.pc = "write"
  /\ listener' = [listener EXCEPT !.cmd.writes = @ + 1,
                                  !.cmd.err = "write failed",
                                  !.cmd.pc = "returned"]
  /\ UNCHANGED <<busVars, parseVars, handlerVars>>

\* sendCommand: conn.Write failed: return nil, err
sendCommand_WriteFails ==
  /\ Alive
  /\ cmd.pc = "write"
  /\ listener' = [listener EXCEPT !.cmd.writes = @ + 1,
                                  !.cmd.err = "write failed",
                                  !.cmd.pc = "close"]
  /\ UNCHANGED <<busVars, parseVars, handlerVars>>

\* (faulty variant: the response is read to its end)
sendCommand_Read_ToTheEnd(doc, r, n) ==
  /\ Alive
  /\ cmd.pc = "read"
  /\ listener' = [listener EXCEPT
                    !.cmd.reads = @ + 1,
                    !.cmd.data = [n |-> r, of |-> r, doc |-> doc],
                    !.cmd.pc = "close"]
  /\ UNCHANGED <<busVars, parseVars, handlerVars>>

\* sendCommand: n, err := conn.Read(buf) returned n bytes of a response of r
\* bytes, which are the JSON text doc: return buf[:n], nil
sendCommand_Read(doc, r, n) ==
  /\ Alive
  /\ cmd.pc = "read"
  /\ listener' = [listener EXCEPT
                    !.cmd.reads = @ + 1,
                    !.cmd.data = [n |-> n, of |-> r, doc |-> doc],
                    !.cmd.pc = "close"]
  /\ UNCHANGED <<busVars, parseVars, handlerVars>>

\* sendCommand: conn.Read failed (the server sent nothing and closed, or the
\* connection broke): return nil, err
sendCommand_ReadFails ==
  /\ Alive
  /\ cmd.pc = "read"
  /\ listener' = [listener EXCEPT !.cmd.reads = @ + 1,
                                  !.cmd.err = "read failed",
                                  !.cmd.pc = "close"]
  /\ UNCHANGED <<busVars, parseVars, handlerVars>>

\* sendCommand returns: the deferred conn.Close() runs.
sendCommand_Return ==
  /\ Alive
  /\ cmd.pc = "close"
  /\ listener' = [listener EXCEPT !.cmdConns[cmd.conn].st = "closed",
                                  !.cmd.pc = "returned"]
  /\ UNCHANGED <<busVars, parseVars, handlerVars>>

\* The queries that decode into a struct and return a pointer to it; the
\* others decode into a slice.
IntoStruct == {"GetActiveWorkspace", "GetActiveWindow"}

\* json.Unmarshal(data, &v) for the target of query q: the pair (v, err).
\* A struct takes an object, and null leaves it as it is; a slice takes an
\* array, and null leaves it nil.
Unmarshal(q, doc) ==
  IF q \in IntoStruct
    THEN IF doc.kind \in {"object", "null"}
           THEN [val |-> <<[record |-> doc.kind]>>, err |-> Nil]
           ELSE [val |-> << >>, err |-> "json: cannot decode"]
    ELSE IF doc.kind \in {"array", "null"}
           THEN [val |-> doc.items, err |-> Nil]
           ELSE [val |-> << >>, err |-> "json: cannot decode"]

\* What a query returns without a record: a nil pointer or a nil slice.
NoRecord(q) == << >>

\* (faulty variant: the error of json.Unmarshal is dropped)
Query_IgnoresDecodeError(q, data, err) ==
  IF err # Nil THEN [val |-> NoRecord(q), err |-> err]
  ELSE [val |-> Unmarshal(q, data.doc).val, err |-> Nil]

\* GetActiveWorkspace, GetWorkspaces, GetActiveWindow, GetWindows and
\* GetMonitors, after sendCommand has returned (data, err).
Query(q, data, err) ==
  IF err # Nil THEN [val |-> NoRecord(q), err |-> err]
  ELSE LET v == Unmarshal(q, data.doc) IN
         IF v.err # Nil THEN [val |-> NoRecord(q), err |-> v.err]
                        ELSE [val |-> v.val, err |-> Nil]

\* (faulty variant: the first monitor is returned)
GetActiveMonitor_First(data, err) ==
  LET r == Query("GetMonitors", data, err) IN
    IF r.err # Nil THEN [val |-> << >>, err |-> r.err]
    ELSE IF r.val # << >>
      THEN [val |-> <<[index |-> 1, mon |-> r.val[1]]>>, err |-> Nil]
      ELSE [val |-> << >>, err |-> "no focused monitor found"]

\* GetActiveMonitor, after the sendCommand of its GetMonitors has returned
\* (data, err): the first monitor with Focused set.
GetActiveMonitor(data, err) ==
  LET r == Query("GetMonitors", data, err) IN
    IF r.err # Nil THEN [val |-> << >>, err |-> r.err]
    ELSE IF \E k \in 1 .. Len(r.val) : r.val[k].Focused
      THEN LET k == CHOOSE k \in 1 .. Len(r.val) :
                      /\ r.val[k].Focused
                      /\ \A j \in 1 .. k - 1 : ~r.val[j].Focused
           IN  [val |-> <<[index |-> k, mon |-> r.val[k]]>>, err |-> Nil]
      ELSE [val |-> << >>, err |-> "no focused monitor found"]

\* The call returns to its caller.
Call_Return ==
  /\ Alive
  /\ cmd.pc = "returned"
  /\ listener' =
       [listener EXCEPT
          !.cmd.pc = "done",
          !.cmd.ret =
             IF cmd.q \in Queries THEN Query(cmd.q, cmd.data, cmd.err)
             ELSE IF cmd.q = "GetActiveMonitor"
               THEN GetActiveMonitor(cmd.data, cmd.err)
             ELSE [val |-> << >>, err |-> cmd.err]]
  /\ UNCHANGED <<busVars, parseVars, handlerVars>>

\* The environment NewHyprlandClient runs in: the variable is not set, is
\* empty, or holds a signature.
Envs ==
  {[set |-> FALSE, value |-> ""], [set |-> TRUE, value |-> ""],
   [set |-> TRUE, value |-> "abc123"]}

CommandInit ==
  /\ NewHyprlandClient
  /\ parser = NoLine
  /\ listener \in {ListenerIn(e) : e \in Envs}
  /\ handler = NewHyprlandEventHandler

\* One caller sends commands and queries, one after the other, while the
\* event listener is started and a subscriber is added.
CommandNext ==
  \/ \E q \in Commands : Call(q)
  \/ sendCommand_Dial
  \/ sendCommand_DialFails
  \/ sendCommand_Write
  \/ sendCommand_WriteFails
  \/ \E doc \in Documents : \E r \in ResponseLens : \E n \in ReadLens(r) :
       sendCommand_Read(doc, r, n)
  \/ sendCommand_ReadFails
  \/ sendCommand_Return
  \/ Call_Return
  \/ session.client # << >> /\ StartEventListener_Dial
  \/ session.client # << >> /\ Subscribe_Append("c1", QueueCap)
  \/ Subscribe_Unlock("c1")

SpecCommand == CommandInit /\ [][CommandNext]_vars

\* ---- the session ----------------------------------------------------------
\* The client is made in one of the environments; when there is a client,
\* one caller sends commands while another starts the event listener,
\* subscribes, unsubscribes and closes the client.
SessionNext ==
  \/ \E q \in {"GetActiveWorkspace", "ToggleFullscreen"} : Call(q)
  \/ sendCommand_Dial
  \/ sendCommand_DialFails
  \/ sendCommand_Write
  \/ sendCommand_WriteFails
  \/ sendCommand_Read([kind |-> "object", items |-> << >>], 1, 1)
  \/ sendCommand_ReadFails
  \/ sendCommand_Return
  \/ Call_Return
  \/ session.client # << >> /\ StartEventListener_Dial
  \/ session.client # << >> /\ Subscribe_Append("c1", QueueCap)
  \/ Subscribe_Unlock("c1")
  \/ \E ch \in subRet : Unsubscribe_Find("c1", ch)
  \/ Unsubscribe_Close("c1")
  \/ Unsubscribe_Unlock("c1")
  \/ session.client # << >> /\ ~closeRet /\ Close_Conn("c1")
  \/ Close_Lock("c1")
  \/ Close_Loop("c1")
  \/ Close_Nil("c1")
  \/ Close_Unlock("c1")

SpecSession == CommandInit /\ [][SessionNext]_vars

\* ==== Start and Stop, called again and again ================================
\* One caller calls Start and Stop of one handler in any order, one call
\* after the other.  No callback is registered and the stream is silent.
\* Every Start dials a connection of its own and starts a reader and a
\* handleEvents goroutine of its own.

\* Start is called.
Start_Call(p) ==
  /\ Alive
  /\ hCall = "none" /\ pc[p] = "idle"
  /\ handler' = [handler EXCEPT
                   !.hCall = "start",
                   !.mark = [nStart |-> nStart, conns |-> Len(conns),
                             nextCh |-> nextCh]]
  /\ UNCHANGED <<busVars, parseVars, listenVars>>

\* Start is at `h.client.StartEventListener()`.
DialPending == hCall = "start" /\ nStart = mark.nStart

\* StartEventListener returned an error: `return err`.
Start_Err(p) ==
  /\ Alive
  /\ hCall = "start" /\ nStart > mark.nStart /\ Len(conns) = mark.conns
  /\ handler' = [handler EXCEPT !.hCall = "none"]
  /\ UNCHANGED <<busVars, parseVars, listenVars>>

\* Start is at `h.events = h.client.Subscribe()`, before the call.
SubscribePending ==
  hCall = "start" /\ Len(conns) > mark.conns /\ nextCh = mark.nextCh

\* Subscribe has returned the queue: h.events = ...; go h.handleEvents();
\* return nil
Start_GoLoop(p) ==
  /\ Alive
  /\ hCall = "start" /\ pc[p] = "idle" /\ nextCh > mark.nextCh
  /\ handler' = [handler EXCEPT !.hEvents = nextCh - 1,
                                !.loops = Append(@, "select"),
                                !.hCall = "none"]
  /\ UNCHANGED <<busVars, parseVars, listenVars>>

\* Stop before any Start: h.events is nil.  Unsubscribe(nil) takes the lock,
\* finds no listener equal to nil and releases the lock; Stop returns.
Stop_UnsubscribeNil(p) ==
  /\ Alive
  /\ hCall = "stop" /\ pc[p] = "idle" /\ hEvents = Foreign
  /\ writer = None /\ readers = {}
  /\ handler' = [handler EXCEPT !.hCall = "none"]
  /\ UNCHANGED <<busVars, parseVars, listenVars>>

\* The k-th handleEvents goroutine: select takes `case <-h.stopChan: return`.
\* (Its other case receives from h.events, which is empty or closed here:
\* the zero event it gets from the closed queue has no callback.)
handleEvents_LoopStopped(k) ==
  /\ Alive
  /\ loops[k] = "select" /\ stopChan
  /\ handler' = [handler EXCEPT !.loops[k] = "returned"]
  /\ UNCHANGED <<busVars, parseVars, listenVars>>

LifecycleNext ==
  \/ nStart < MaxStarts /\ nextCh <= MaxChans /\ Start_Call("c1")
  \/ DialPending /\ StartEventListener_Dial
  \/ DialPending /\ StartEventListener_DialFails
  \/ Start_Err("c1")
  \/ SubscribePending /\ Subscribe_Append("c1", QueueCap)
  \/ Subscribe_Unlock("c1")
  \/ Start_GoLoop("c1")
  \/ Stop_CloseStopChan("c1")
  \/ hCall = "stop" /\ hEvents # Foreign /\ hEvents \notin unsubRet
       /\ Unsubscribe_Find("c1", hEvents)
  \/ Unsubscribe_Close("c1")
  \/ Unsubscribe_Unlock("c1")
  \/ Stop_Return("c1")
  \/ Stop_UnsubscribeNil("c1")
  \/ \E k \in 1 .. Len(loops) : handleEvents_LoopStopped(k)
  \/ \E t \in Tasks : readEvents_Defer(t)
  \/ \E t \in Tasks : readEvents_NewScanner(t)

SpecLifecycle == Init /\ [][LifecycleNext]_vars

\* ---- teardown from every side ----------------------------------------------
\* One handler and two callers.  Caller c1 calls Start once and Stop at any
\* moment and any number of times (before Start, after it, again after a
\* Stop).  Caller c2 calls Unsubscribe, with the handler's queue or with a
\* channel the bus never made, and Close, again and again, while c1 runs;
\* once the handler has its queue c2 may Subscribe too.

\* (faulty variant: the queue is closed and stays in the registry)
Stop_Unsubscribe_KeepsListed(p) ==
  /\ Alive
  /\ hCall = "stop" /\ pc[p] = "idle"
  /\ writer = None /\ readers = {}
  /\ IF IndexOf(listeners, hEvents) > 0
       THEN CloseChan(hEvents)
       ELSE UNCHANGED <<closed, fault>>
  /\ unsubRet' = unsubRet \cup ({hEvents} \ {Foreign})
  /\ handler' = [handler EXCEPT !.hCall = "none"]
  /\ UNCHANGED <<listeners, writer, readers, eventConn, buf, capOf, nextCh,
                 nEv, pc, loc, got, snap, tried, afterClose, subRet, closeRet>>
  /\ UNCHANGED <<parseVars, listenVars>>

\* Stop, second statement: h.client.Unsubscribe(h.events), and Stop returns.
\* Unsubscribe runs from Lock to the deferred Unlock with the write lock
\* held, so nothing of the bus interleaves with its body: the listener equal
\* to h.events, if there is one, is removed and closed.  h.events is nil
\* (Foreign) before Start.
Stop_Unsubscribe(p) ==
  /\ Alive
  /\ hCall = "stop" /\ pc[p] = "idle"
  /\ writer = None /\ readers = {}
  /\ LET k == IndexOf(listeners, hEvents) IN
       IF k > 0
         THEN listeners' = RemoveAt(listeners, k) /\ CloseChan(hEvents)
         ELSE UNCHANGED <<listeners, closed, fault>>
  /\ unsubRet' = unsubRet \cup ({hEvents} \ {Foreign})
  /\ handler' = [handler EXCEPT !.hCall = "none"]
  /\ UNCHANGED <<writer, readers, eventConn, buf, capOf, nextCh, nEv, pc, loc,
                 got, snap, tried, afterClose, subRet, closeRet>>
  /\ UNCHANGED <<parseVars, listenVars>>

TeardownNext ==
  \/ Start_Enter("c1")
  \/ hCall = "start" /\ StartEventListener("c1")
  \/ hCall = "start" /\ eventConn # "nil" /\ nextCh = 1
       /\ Subscribe_Append("c1", QueueCap)
  \/ Subscribe_Unlock("c1")
  \/ Start_Go("c1")
  \/ Stop_CloseStopChan("c1")
  \/ Stop_Unsubscribe("c1")
  \/ hpc # "none" /\ Subscribe_Append("c2", QueueCap)
  \/ Subscribe_Unlock("c2")
  \/ \E ch \in subRet \cup {Foreign} : Unsubscribe_Find("c2", ch)
  \/ Unsubscribe_Close("c2")
  \/ Unsubscribe_Unlock("c2")
  \/ Close_Conn("c2")
  \/ Close_Lock("c2")
  \/ Close_Loop("c2")
  \/ Close_Nil("c2")
  \/ Close_Unlock("c2")
  \/ handleEvents_Stopped

SpecTeardown == Init /\ [][TeardownNext]_vars

\* ---- the stopped loop -------------------------------------------------------
\* A started handler without callbacks, a stream of events and one Stop.
\* Once Stop's Unsubscribe has closed the queue both cases of the select in
\* handleEvents are ready for good: the receive yields the buffered events
\* and then the zero event, again and again.

\* handleEvents: select takes `case event := <-h.events` on the closed and
\* drained queue once more; the receive yields the zero event.
handleEvents_ReceiveZero ==
  /\ Alive
  /\ hpc = "select" /\ hEvents # Foreign
  /\ buf[hEvents] = << >> /\ closed[hEvents]
  /\ EOS \in Range(handled)
  /\ handler' = [handler EXCEPT !.hEv = EOS, !.hpc = "zero"]
  /\ UNCHANGED <<busVars, parseVars, listenVars>>

\* processEvent(HyprlandEvent{}) with no callback registered for the empty
\* type: nothing is started and the loop is back at its select.
processEvent_Zero ==
  /\ Alive
  /\ hpc = "zero" /\ callbacks[<< >>] = << >>
  /\ handler' = [handler EXCEPT !.hpc = "select"]
  /\ UNCHANGED <<busVars, parseVars, listenVars>>

StopNext ==
  \/ Start_Enter("c1")
  \/ hCall = "start" /\ StartEventListener("c1")
  \/ hCall = "start" /\ eventConn # "nil" /\ nextCh = 1
       /\ Subscribe_Append("c1", QueueCap)
  \/ Subscribe_Unlock("c1")
  \/ Start_Go("c1")
  \/ hpc # "none" /\ ~stopChan /\ Stop_CloseStopChan("c1")
  \/ hCall = "stop" /\ hEvents \notin unsubRet /\ Unsubscribe_Find("c1", hEvents)
  \/ Unsubscribe_Close("c1")
  \/ Unsubscribe_Unlock("c1")
  \/ Stop_Return("c1")
  \/ \E l \in EventLines : hpc # "none" /\ readEvents_ScanLine(l, MaxLines)
  \/ dispatchEvent_RLock
  \/ dispatchEvent_Send
  \/ dispatchEvent_RUnlock
  \/ handleEvents_Receive
  \/ handleEvents_ReceiveZero
  \/ processEvent
  \/ processEvent_Zero
  \/ handleEvents_Stopped

\* The goroutine of handleEvents is scheduled again and again, so it leaves
\* processEvent; the select chooses among its ready cases by uniform
\* pseudo-random selection, so a case that is ready again and again is
\* chosen at last.
StopFairness ==
  /\ WF_vars(processEvent)
  /\ WF_vars(processEvent_Zero)
  /\ SF_vars(handleEvents_Stopped)

SpecStop == Init /\ [][StopNext]_vars /\ StopFairness

\* ==== the typed registrations ==============================================
\* ---- strconv.Atoi ---------------------------------------------------------
Digits == <<"0", "1", "2", "3", "4", "5", "6", "7", "8", "9">>

IsDigit(c) == c \in Range(Digits)

DigitValue(c) == IndexOf(Digits, c) - 1

\* The number a sequence of digits denotes.
RECURSIVE Number(_)
Number(ds) ==
  IF ds = << >> THEN 0
  ELSE Number(SubSeq(ds, 1, Len(ds) - 1)) * 10 + DigitValue(ds[Len(ds)])

\* The digits without leading zeros.
RECURSIVE Significant(_)
Significant(ds) ==
  IF ds # << >> /\ ds[1] = "0" THEN Significant(Tail(ds)) ELSE ds

\* The digits of the largest int (64 bit), 9223372036854775807.
IntMax ==
  <<"9", "2", "2", "3", "3", "7", "2", "0", "3", "6", "8", "5", "4", "7",
    "7", "5", "8", "0", "7">>

\* The digits of the magnitude of the smallest int, 9223372036854775808.
IntMinMagnitude ==
  <<"9", "2", "2", "3", "3", "7", "2", "0", "3", "6", "8", "5", "4", "7",
    "7", "5", "8", "0", "8">>

\* The number with the digits a is greater than the number with the digits
\* b (neither has leading zeros).
Greater(a, b) ==
  \/ Len(a) > Len(b)
  \/ /\ Len(a) = Len(b)
     /\ \E k \in 1 .. Len(a) :
          /\ SubSeq(a, 1, k - 1) = SubSeq(b, 1, k - 1)
          /\ DigitValue(a[k]) > DigitValue(b[k])

\* strconv.Atoi(s): an optional sign and one or more decimal digits.  The
\* result is the pair (n, err): a syntax error for anything else, a range
\* error (with the nearest int as n, written "clamped") when the number does
\* not fit an int.
Atoi(s) ==
  LET signed == s # << >> /\ s[1] \in {"+", "-"}
      ds     == IF signed THEN Tail(s) ELSE s
      limit  == IF signed /\ s[1] = "-" THEN IntMinMagnitude ELSE IntMax
  IN  IF ds = << >> \/ \E k \in 1 .. Len(ds) : ~IsDigit(ds[k])
        THEN [n |-> 0, err |-> "syntax"]
      ELSE IF Greater(Significant(ds), limit)
        THEN [n |-> "clamped", err |-> "range"]
      ELSE [n |-> IF signed /\ s[1] = "-" THEN 0 - Number(ds) ELSE Number(ds),
            err |-> "nil"]

\* ---- OnWorkspaceChange ----------------------------------------------------
\* (faulty variant: the id is taken from the last field)
OnWorkspaceChange_Closure_LastField(event) ==
  IF Len(event.Data) > 0
    THEN LET r == Atoi(event.Data[Len(event.Data)]) IN
           IF r.err = "nil" THEN << <<r.n, event.Data[1]>> >>
                            ELSE << <<0, event.Data[1]>> >>
    ELSE << >>

\* The closure OnWorkspaceChange registers, run with an event: the calls it
\* makes to the WorkspaceCallback, each call the pair of its arguments
\* (workspaceID, workspaceName).
OnWorkspaceChange_Closure(event) ==
  IF Len(event.Data) > 0
    THEN LET r == Atoi(event.Data[1]) IN
           IF r.err = "nil" THEN << <<r.n, event.Data[1]>> >>
                            ELSE << <<0, event.Data[1]>> >>
    ELSE << >>

\* (faulty variant: the last field is taken for the title and for the
\* workspace of the monitor)
Closure_LastFieldIsSecond(kind, event) ==
  CASE kind = "workspace" -> OnWorkspaceChange_Closure(event)
    [] kind \in {"activewindow", "focusedmon"} ->
         IF Len(event.Data) >= 2
           THEN << <<event.Data[1], event.Data[Len(event.Data)]>> >>
           ELSE << >>
    [] kind = "openwindow" ->
         IF Len(event.Data) >= 4
           THEN << <<event.Data[1], event.Data[2], event.Data[3],
                     event.Data[4]>> >>
           ELSE << >>
    [] kind \in {"closewindow", "createworkspace", "destroyworkspace"} ->
         IF Len(event.Data) > 0 THEN << <<event.Data[1]>> >> ELSE << >>
    [] kind = "fullscreen" ->
         IF Len(event.Data) > 0 THEN << <<event.Data[1] = <<"1">> >> >>
                                ELSE << >>

\* The closure a typed registration hands to On, run with an event: the
\* calls it makes to the callback of the caller, each call the tuple of its
\* arguments.
Closure(kind, event) ==
  CASE kind = "workspace" -> OnWorkspaceChange_Closure(event)
    [] kind \in {"activewindow", "focusedmon"} ->
         IF Len(event.Data) >= 2
           THEN << <<event.Data[1], event.Data[2]>> >>
           ELSE << >>
    [] kind = "openwindow" ->
         IF Len(event.Data) >= 4
           THEN << <<event.Data[1], event.Data[2], event.Data[3],
                     event.Data[4]>> >>
           ELSE << >>
    [] kind \in {"closewindow", "createworkspace", "destroyworkspace"} ->
         IF Len(event.Data) > 0 THEN << <<event.Data[1]>> >> ELSE << >>
    [] kind = "fullscreen" ->
         IF Len(event.Data) > 0 THEN << <<event.Data[1] = <<"1">> >> >>
                                ELSE << >>

\* OnActiveWindow, OnMonitorFocus, OnWindowOpen, OnWindowClose,
\* OnFullscreenToggle, OnWorkspaceCreate, OnWorkspaceDestroy:
\* h.On(type, closure)
OnTyped(kind) ==
  /\ Alive
  /\ kind \in Kinds \ {"workspace"}
  /\ handler' =
       [handler EXCEPT
          !.callbacks[TypeOf(kind)] = Append(@, NumCallbacks + 1),
          !.closures = @ \cup {[cb |-> NumCallbacks + 1, kind |-> kind]}]
  /\ UNCHANGED <<busVars, parseVars, listenVars>>

\* OnWorkspaceChange(callback): h.On("workspace", closure)
OnWorkspaceChange ==
  /\ Alive
  /\ handler' =
       [handler EXCEPT
          !.callbacks[Workspace] = Append(@, NumCallbacks + 1),
          !.closures = @ \cup {[cb |-> NumCallbacks + 1, kind |-> "workspace"]}]
  /\ UNCHANGED <<busVars, parseVars, listenVars>>

\* The goroutine of invocation i, which has begun, runs its closure to the
\* end.
closure_Run(i) ==
  /\ Alive
  /\ i \in Range(begun) /\ i \notin ended
  /\ \E c \in closures :
       /\ c.cb = spawned[i].cb
       /\ LET made == Closure(c.kind, EventOf(spawned[i].ev)) IN
            handler' =
              [handler EXCEPT
                 !.calls = @ \o [k \in 1 .. Len(made) |->
                                   [inv |-> i, args |-> made[k]]],
                 !.ended = @ \cup {i}]
  /\ UNCHANGED <<busVars, parseVars, listenVars>>

\* The first fields of the lines read: the strings of at most MaxField
\* characters over two digits, the signs, a letter and the comma, and a
\* number one greater than the largest int.
FieldChars == {"0", "3", "-", "+", "x", ","}

Fields ==
  UNION {[1 .. k -> FieldChars] : k \in 0 .. MaxField} \cup {IntMinMagnitude}

\* The lines read: workspace events, a line without ">>" and an event of
\* another type.
TypedLines ==
  {Workspace \o Delim \o f : f \in Fields}
    \cup {Workspace, <<"a", ">", ">", "3">>}

\* One OnWorkspaceChange registration, Start, one line.
TypedNext ==
  \/ hCall = "none" /\ hpc = "none" /\ NumCallbacks = 0 /\ OnWorkspaceChange
  \/ NumCallbacks = 1 /\ Start_Enter("c1")
  \/ hCall = "start" /\ StartEventListener("c1")
  \/ hCall = "start" /\ eventConn # "nil" /\ nextCh = 1
       /\ Subscribe_Append("c1", QueueCap)
  \/ Subscribe_Unlock("c1")
  \/ Start_Go("c1")
  \/ \E l \in TypedLines : hpc # "none" /\ readEvents_ScanLine(l, 1)
  \/ dispatchEvent_RLock
  \/ dispatchEvent_Send
  \/ dispatchEvent_RUnlock
  \/ handleEvents_Receive
  \/ processEvent
  \/ \E i \in 1 .. Len(spawned) : callback_Begin(i)
  \/ \E i \in 1 .. Len(spawned) : closure_Run(i)

SpecTyped == Init /\ [][TypedNext]_vars

\* ---- every typed registration ----------------------------------------------
\* The fields of the lines read: a flag, a class, a title in two parts, an
\* empty field, and so on round.
FieldPool == << <<"1">>, <<"a">>, <<"b", "a">>, << >>, <<"0">> >>

FieldAt(k) == FieldPool[((k - 1) % Len(FieldPool)) + 1]

RECURSIVE FieldsFrom(_, _)
\* n fields from the k-th on, with a comma between two of them.
FieldsFrom(k, n) ==
  IF n = 0 THEN << >>
  ELSE IF n = 1 THEN FieldAt(k)
  ELSE FieldAt(k) \o Comma \o FieldsFrom(k + 1, n - 1)

\* The lines read: every type with zero to MaxData fields' worth of text
\* after the ">>".
KindLines ==
  {TypeOf(kind) \o Delim \o FieldsFrom(k, n) :
     kind \in Kinds, k \in 1 .. 2, n \in 0 .. MaxData}

\* One typed registration, Start, one line.
KindsNext ==
  \/ hCall = "none" /\ hpc = "none" /\ NumCallbacks = 0 /\ OnWorkspaceChange
  \/ \E kind \in Kinds \ {"workspace"} :
       hCall = "none" /\ hpc = "none" /\ NumCallbacks = 0 /\ OnTyped(kind)
  \/ NumCallbacks = 1 /\ Start_Enter("c1")
  \/ hCall = "start" /\ StartEventListener("c1")
  \/ hCall = "start" /\ eventConn # "nil" /\ nextCh = 1
       /\ Subscribe_Append("c1", QueueCap)
  \/ Subscribe_Unlock("c1")
  \/ Start_Go("c1")
  \/ \E l \in KindLines : hpc # "none" /\ readEvents_ScanLine(l, 1)
  \/ dispatchEvent_RLock
  \/ dispatchEvent_Send
  \/ dispatchEvent_RUnlock
  \/ handleEvents_Receive
  \/ processEvent
  \/ \E i \in 1 .. Len(spawned) : callback_Begin(i)
  \/ \E i \in 1 .. Len(spawned) : closure_Run(i)

SpecKinds == Init /\ [][KindsNext]_vars

\* ==== the status bar program ================================================
\* model.Init and model.Update under the bubbletea runtime.  The runtime
\* calls Init once, runs every command of a returned batch in a goroutine of
\* its own, hands the messages to Update one at a time, and ends the program
\* when the message of tea.Quit arrives.  tea.Tick sends its one message
\* when the second is over.

\* model.Init: tea.Batch(tickCmd(), getSystemInfo(), getBatteryInfo(),
\* getNetworkInfo())
model_Init == {"tickCmd", "getSystemInfo", "getBatteryInfo", "getNetworkInfo"}

\* (faulty variant: the tick is not scheduled again)
Update_TickOnce(m, msg) ==
  CASE msg.type = "KeyMsg" ->
         [m |-> m, cmd |-> IF msg.key \in {"q", "ctrl+c"} THEN {"Quit"} ELSE {}]
    [] msg.type = "WindowSizeMsg" -> [m |-> [m EXCEPT !.size = msg.val], cmd |-> {}]
    [] msg.type = "tickMsg" -> [m |-> [m EXCEPT !.currTime = msg.val], cmd |-> Polls]
    [] msg.type = "sysInfoMsg" -> [m |-> [m EXCEPT !.sysInfo = msg.val], cmd |-> {}]
    [] msg.type = "batteryMsg" -> [m |-> [m EXCEPT !.battery = msg.val], cmd |-> {}]
    [] msg.type = "networkMsg" -> [m |-> [m EXCEPT !.network = msg.val], cmd |-> {}]
    [] msg.type = "hyprlandMsg" -> [m |-> [m EXCEPT !.hyprland = msg.val], cmd |-> {}]
    [] OTHER -> [m |-> m, cmd |-> {}]

\* model.Update(msg): the new model and the command returned, a batch as the
\* set of its commands and nil as the empty set.
Update(m, msg) ==
  CASE msg.type = "KeyMsg" ->
         [m |-> m, cmd |-> IF msg.key \in {"q", "ctrl+c"} THEN {"Quit"} ELSE {}]
    [] msg.type = "WindowSizeMsg" -> [m |-> [m EXCEPT !.size = msg.val], cmd |-> {}]
    [] msg.type = "tickMsg" -> [m |-> [m EXCEPT !.currTime = msg.val], cmd |-> Cmds]
    [] msg.type = "sysInfoMsg" -> [m |-> [m EXCEPT !.sysInfo = msg.val], cmd |-> {}]
    [] msg.type = "batteryMsg" -> [m |-> [m EXCEPT !.battery = msg.val], cmd |-> {}]
    [] msg.type = "networkMsg" -> [m |-> [m EXCEPT !.network = msg.val], cmd |-> {}]
    [] msg.type = "hyprlandMsg" -> [m |-> [m EXCEPT !.hyprland = msg.val], cmd |-> {}]
    [] OTHER -> [m |-> m, cmd |-> {}]

\* The running commands when the commands of the set cs have been started.
\* The count of a kind stops at MaxPending: that many or more are running.
Started_Cmds(run, cs) ==
  [c \in Cmds |-> IF c \in cs THEN Min(run[c] + 1, MaxPending) ELSE run[c]]

\* The runtime hands msg to Update, takes the model it returns and starts
\* the commands it returns; `left` are the commands still running.
Program_Step(msg, left) ==
  LET r == Update(program.m, msg) IN
    /\ listener' =
         [listener EXCEPT
            !.program =
               [status  |-> IF "Quit" \in r.cmd /\ program.status = "running"
                              THEN "quitting" ELSE program.status,
                m       |-> r.m,
                running |-> Started_Cmds(left, r.cmd),
                stopper |-> IF "Quit" \in r.cmd /\ program.status = "running"
                              THEN msg.key ELSE program.stopper]]
    /\ UNCHANGED <<busVars, parseVars, handlerVars>>

\* p.Run(): the runtime calls Init and starts its commands.
Program_Run ==
  /\ program.status = "new"
  /\ listener' = [listener EXCEPT
                    !.program.status = "running",
                    !.program.running = Started_Cmds(@, model_Init)]
  /\ UNCHANGED <<busVars, parseVars, handlerVars>>

\* The value of the message command c sends: for the tick the time, of which
\* the model keeps whether the second is even or odd; for a poll the result,
\* of which the model has one.
ValueOf(c) == IF c = "tickCmd" THEN 1 - program.m.currTime ELSE 1

\* A running command c ends and its message reaches Update.  When
\* MaxPending commands of the kind are counted, more of them may be running.
Program_Deliver(c) ==
  /\ program.status \in {"running", "quitting"}
  /\ program.running[c] > 0
  /\ \E n \in {program.running[c] - 1} \cup
              (IF c \in Polls /\ program.running[c] = MaxPending
                 THEN {MaxPending} ELSE {}) :
       Program_Step([type |-> MsgOf(c), key |-> "", val |-> ValueOf(c)],
                    [program.running EXCEPT ![c] = n])

\* The terminal sends a key, a mouse event or its size.
Program_Input(msg) ==
  /\ program.status \in {"running", "quitting"}
  /\ Program_Step(msg, program.running)

\* The message of tea.Quit reaches the runtime: the program ends.
Program_Quit ==
  /\ program.status = "quitting"
  /\ listener' = [listener EXCEPT !.program.status = "ended"]
  /\ UNCHANGED <<busVars, parseVars, handlerVars>>

\* The keys the terminal sends.
Keys == {"q", "ctrl+c", "a"}

ProgramNext ==
  \/ Program_Run
  \/ \E c \in Cmds : Program_Deliver(c)
  \/ \E k \in Keys : Program_Input([type |-> "KeyMsg", key |-> k, val |-> 0])
  \/ Program_Input([type |-> "MouseMsg", key |-> "", val |-> 1])
  \/ Program_Input([type |-> "WindowSizeMsg", key |-> "", val |-> 80])
  \/ Program_Quit

\* The runtime starts the program, the timer of tea.Tick fires and the
\* runtime receives the message sent to it.
ProgramFairness ==
  /\ WF_vars(Program_Run)
  /\ WF_vars(Program_Deliver("tickCmd"))

SpecProgram == Init /\ [][ProgramNext]_vars /\ ProgramFairness

\* ==== the callbacks =========================================================
\* What the goroutines started by `go callback(event)` do.  A callback is
\* code of the caller: it returns, it never returns, or it panics.  Nothing
\* in processEvent recovers a panic, and a panic no goroutine recovers ends
\* the program.  The handler is started and never stopped, the client is
\* never closed.
MaxInvocations == Len(Registrations) * MaxLines

\* The running callback of invocation i returns.
callback_Return(i) ==
  /\ Alive
  /\ i \in Range(begun) /\ i \notin ended
  /\ handler' = [handler EXCEPT !.ended = @ \cup {i}]
  /\ UNCHANGED <<busVars, parseVars, listenVars>>

\* The running callback of invocation i panics.
callback_Panic(i) ==
  /\ Alive
  /\ i \in Range(begun) /\ i \notin ended
  /\ fault' = "panic in callback"
  /\ UNCHANGED <<listeners, writer, readers, eventConn, buf, closed, capOf,
                 nextCh, nEv, pc, loc, got, histVars>>
  /\ UNCHANGED nonBusVars

CallbackNext ==
  \/ /\ hCall = "none" /\ hpc = "none" /\ NumCallbacks < Len(Registrations)
     /\ On(Registrations[NumCallbacks + 1])
  \/ NumCallbacks = Len(Registrations) /\ Start_Enter("c1")
  \/ hCall = "start" /\ StartEventListener("c1")
  \/ hCall = "start" /\ eventConn # "nil" /\ nextCh = 1
       /\ Subscribe_Append("c1", QueueCap)
  \/ Subscribe_Unlock("c1")
  \/ Start_Go("c1")
  \/ \E l \in EventLines : hpc # "none" /\ readEvents_ScanLine(l, MaxLines)
  \/ dispatchEvent_RLock
  \/ dispatchEvent_Send
  \/ dispatchEvent_RUnlock
  \/ handleEvents_Receive
  \/ processEvent
  \/ \E i \in 1 .. Len(spawned) : callback_Begin(i)
  \/ \E i \in 1 .. Len(spawned) : callback_Return(i)
  \/ \E i \in 1 .. Len(spawned) : callback_Panic(i)

\* The scheduler runs every goroutine that can take a step: the handler's
\* loop and every goroutine `go callback(event)` has started.  No fairness
\* is assumed for the code of a callback: it need not return.
CallbackFairness ==
  /\ WF_vars(handleEvents_Receive)
  /\ WF_vars(processEvent)
  /\ \A i \in 1 .. MaxInvocations : WF_vars(callback_Begin(i))

SpecCallbacks == Init /\ [][CallbackNext]_vars /\ CallbackFairness

\* ==== properties ===========================================================
Registry   == Range(listeners)

Created    == 1 .. nextCh - 1

Dispatching == pc[Reader] = "d_loop"

DispatchOver == Dispatching /\ loc[Reader].i > loc[Reader].n

\* The events a consumer has received (its history without end-of-stream).
Events(h) == SelectSeq(got[h], LAMBDA e : e # EOS)

\* C1: under every interleaving of Subscribe, Unsubscribe, Close and
\* dispatchEvent, a dispatch never attempts to enqueue onto a queue that has
\* been closed: no "send on closed channel" panic occurs, and every queue the
\* running dispatch still has to try is open.
C1_NoSendOnClosed ==
  /\ fault # "send on closed channel"
  /\ Dispatching =>
       \A k \in loc[Reader].i .. loc[Reader].n : ~closed[ListenerAt(k)]

\* A dispatch has enqueued onto a registered queue while another queue has
\* already been closed and a Close waits for the lock.
C1_Witness ==
  /\ Dispatching /\ tried # << >>
  /\ \E h \in subRet : closed[h]
  /\ \E p \in Callers : pc[p] = "c_lock"

\* C2 as stated: at no step is a closed queue a member of the registry.
C2_ClosedNeverRegistered == \A h \in Registry : ~closed[h]

\* C2 (amended): Unsubscribe takes the queue out of the registry before it
\* closes it; Close closes the registered queues first and empties the
\* registry afterwards, so a closed queue is a member of the registry only
\* inside the loop of a Close that holds the write lock, when no dispatch
\* holds the read lock.
C2_ClosedRegisteredOnlyInsideClose ==
  /\ \A p \in Callers :
       pc[p] = "u_close" => /\ loc[p].ch \notin Registry
                            /\ ~closed[loc[p].ch]
  /\ \A h \in Registry :
       closed[h] => /\ writer \in Callers
                    /\ pc[writer] = "c_loop"
                    /\ readers = {}

\* A Close is inside its loop, one registered queue already closed, while
\* the reader waits for the read lock with an event to dispatch.
C2_Witness ==
  /\ \E p \in Callers : pc[p] = "c_loop" /\ writer = p
  /\ \E h \in Registry : closed[h]
  /\ pc[Reader] = "d_rlock"

\* The event of the running dispatch is in queue h or was received from it.
Delivered(h) == nEv \in Range(Events(h)) \cup Range(buf[h])

\* C3: when a dispatch has run through several registered subscribers, some
\* of them with a full queue, it has tried every one of them; each one whose
\* queue had room when it was tried has the event, only the full ones lack
\* it; and no step of the dispatch waits for a consumer.
C3_DropOnlyForFullQueues ==
  /\ Dispatching => ENABLED (dispatchEvent_Send \/ dispatchEvent_RUnlock)
  /\ DispatchOver =>
       /\ Len(tried) = Len(listeners)
       /\ \A k \in 1 .. Len(listeners) :
            /\ tried[k].ch = listeners[k]
            /\ tried[k].len < capOf[listeners[k]] => Delivered(listeners[k])
            /\ tried[k].len >= capOf[listeners[k]] => ~Delivered(listeners[k])

\* A dispatch is over that found the first queue full and the second with
\* room: the event is missing from the first and present in the second.
C3_Witness ==
  /\ DispatchOver /\ Len(tried) >= 2
  /\ tried[1].len = capOf[tried[1].ch]
  /\ tried[2].len < capOf[tried[2].ch]
  /\ ~Delivered(tried[1].ch) /\ Delivered(tried[2].ch)

StrictlyIncreasing(s) == \A i \in 1 .. Len(s) - 1 : s[i] < s[i + 1]

FirstN(n) == [k \in 1 .. n |-> k]

\* C5: after N events have been dispatched while the consumer of a queue
\* read nothing, that queue holds exactly the first min(N, 100) events in
\* dispatch order; a subscriber that keeps consuming has got all N, in order.
C5_FirstHundredKept ==
  (pc[Reader] \in {"r_scan", "r_exit", "done"} /\ Stalled \in Registry
     /\ got[Stalled] = << >>)
  => /\ buf[Stalled] = FirstN(Min(nEv, QueueCap))
     /\ \A h \in Consuming \cap Registry : Events(h) \o buf[h] = FirstN(nEv)

\* More than 100 events have been dispatched: the stalled queue is full and
\* the consuming subscriber has read every one of the events.
C5_Witness ==
  /\ pc[Reader] = "r_scan" /\ nEv > QueueCap
  /\ Stalled \in Registry /\ got[Stalled] = << >>
  /\ Len(buf[Stalled]) = QueueCap
  /\ \E h \in Consuming : Len(got[h]) = nEv

\* The step of goroutine p that enters Unsubscribe(ch), and any step of p
\* inside it.
EntersUnsubscribe(p, ch) ==
  pc[p] = "idle" /\ pc'[p] \in {"u_close", "u_unlock"} /\ loc'[p].ch = ch

InsideUnsubscribe(p, ch) ==
  pc[p] \in {"u_close", "u_unlock"} /\ pc'[p] # pc[p] /\ loc[p].ch = ch

\* C6: Unsubscribe is idempotent: a call with a channel that is not
\* registered (removed earlier by Unsubscribe or by Close, or never returned
\* by Subscribe) goes straight to its return and changes neither the
\* registry nor any queue, and raises no fault.
C6_UnsubscribeIdempotent ==
  [][\A p \in Callers, ch \in Handles :
       /\ (EntersUnsubscribe(p, ch) /\ ch \notin Registry)
            => /\ pc'[p] = "u_unlock"
               /\ UNCHANGED <<listeners, buf, closed, capOf, fault>>
       /\ (InsideUnsubscribe(p, ch) /\ pc[p] = "u_unlock")
            => UNCHANGED <<listeners, buf, closed, capOf, fault>>]_vars

\* A second Unsubscribe of a channel that an earlier Unsubscribe removed and
\* closed is about to return, with another queue still registered.
C6_Witness ==
  \E p \in Callers :
    /\ pc[p] = "u_unlock" /\ loc[p].ch \in unsubRet
    /\ closed[loc[p].ch] /\ Registry # {} /\ fault = None

\* C7: once Unsubscribe(h) has returned, h is out of the registry and closed,
\* no dispatch tries to enqueue on it, and its consumer never blocks: it can
\* take the events still buffered and then end-of-stream.
C7_UnsubscribedQueueIsDead ==
  \A h \in unsubRet :
    /\ h \notin Registry
    /\ closed[h]
    /\ \A k \in 1 .. Len(tried) : tried[k].ch # h
    /\ EOS \in Range(got[h]) \/ ENABLED Recv(h)
    /\ EOS \in Range(got[h]) => buf[h] = << >>

\* Unsubscribe(h) has returned with an event still buffered in h, the
\* consumer has taken that event and then end-of-stream.
C7_Witness ==
  \E h \in unsubRet : Len(got[h]) = 2 /\ got[h][1] # EOS /\ got[h][2] = EOS

\* The running dispatch enqueued nothing: every queue it tried was full.
EnqueuedNothing ==
  \A k \in 1 .. Len(tried) : tried[k].len >= capOf[tried[k].ch]

\* C8 as stated: a dispatch that runs after a Close has returned enqueues
\* nothing.
C8_NoEnqueueAfterClose == (Dispatching /\ afterClose) => EnqueuedNothing

\* C8 (amended): Close leaves the registry empty with every queue closed that
\* was registered when it took the lock; a dispatch that runs after Close
\* has returned raises no fault and enqueues nothing on a closed queue: it
\* enqueues only on queues that a later Subscribe registered.
C8_CloseRemovesAndClosesAll ==
  /\ \A p \in Callers :
       pc[p] = "c_unlock" => /\ listeners = << >>
                             /\ \A h \in loc[p].seen : closed[h]
  /\ (Dispatching /\ afterClose) =>
       /\ fault = None
       /\ \A k \in 1 .. Len(tried) :
            /\ ~closed[tried[k].ch]
            /\ tried[k].ch \in Registry

\* A Close has returned that closed a queue; a Subscribe after it registered
\* a new queue, and a dispatch that began after the Close enqueued on it.
C8_Witness ==
  /\ Dispatching /\ afterClose /\ ~EnqueuedNothing
  /\ \E h \in subRet : closed[h] /\ h \notin unsubRet

\* C9: the queues one dispatch tries are the registry as it was at one point
\* in time, the moment the dispatch took the read lock: the registry does
\* not change while the dispatch runs, and the dispatch tries exactly its
\* members, each once, in order.
C9_DispatchSeesOneRegistry ==
  Dispatching =>
    /\ listeners = snap
    /\ loc[Reader].n = Len(snap)
    /\ Len(tried) = loc[Reader].i - 1
    /\ Len(tried) <= Len(snap)
    /\ \A k \in 1 .. Len(tried) : tried[k].ch = snap[k]

\* A dispatch has gone through a registry of two queues while a Close is
\* held back at the lock.
C9_Witness ==
  /\ DispatchOver /\ Len(snap) >= 2 /\ Len(tried) = Len(snap)
  /\ \E p \in Callers : pc[p] = "c_lock"

NoDuplicates(s) == \A i, j \in 1 .. Len(s) : i # j => s[i] # s[j]

\* The queues Subscribe has returned and that are still open.
OpenSubscribers == {h \in subRet : ~closed[h]}

\* C10: under any interleaving of Subscribe, Unsubscribe and dispatchEvent
\* callers the registry holds no queue twice and none that Subscribe did not
\* make; whenever nobody holds the write lock it is exactly the set of
\* queues Subscribe has returned and that have not been removed; a removal
\* in progress has taken out its own queue and no other, and a queue whose
\* Unsubscribe has returned is not in the registry.
C10_RegistryIsExact ==
  /\ NoDuplicates(listeners)
  /\ Registry \subseteq Created
  /\ writer = None => Registry = OpenSubscribers
  /\ \A p \in Callers :
       /\ pc[p] = "s_unlock" => Registry = OpenSubscribers \cup {loc[p].ch}
       /\ pc[p] = "u_close" => Registry = OpenSubscribers \ {loc[p].ch}
       /\ pc[p] = "u_unlock" => Registry = OpenSubscribers
  /\ Registry \cap unsubRet = {}

\* Both queues were subscribed, the first one has been unsubscribed and the
\* second one is what the registry holds, with both callers back and the
\* reader dispatching.
C10_Witness ==
  /\ subRet = {1, 2} /\ unsubRet = {1} /\ listeners = <<2>>
  /\ writer = None /\ Dispatching
\* ---- C11 ------------------------------------------------------------------
\* C11: under fair scheduling every call of Subscribe, Unsubscribe and Close
\* that has started returns, and every dispatchEvent call returns to the read
\* loop, whatever the other goroutines do and whether or not any consumer
\* reads its queue.
C11_CallsReturn ==
  /\ \A p \in Callers : (pc[p] # "idle") ~> (pc[p] = "idle")
  /\ (pc[Reader] \in {"d_rlock", "d_loop"}) ~> (pc[Reader] = "r_scan")

\* Witness: dispatchEvent waits for the read lock while one caller holds the
\* write lock and the other waits for it, and the registered queue is full.
C11_Witness ==
  /\ pc[Reader] = "d_rlock" /\ writer \in Callers
  /\ \E p \in Callers : pc[p] = "c_lock"
  /\ \E h \in Registry : Len(buf[h]) = capOf[h]

\* ---- C12 ------------------------------------------------------------------
Contains(s, sep) == \E i \in 1 .. Len(s) : OccursAt(s, sep, i)

\* strings.Join
RECURSIVE Join(_, _)
Join(ss, sep) ==
  IF ss = << >> THEN << >>
  ELSE IF Len(ss) = 1 THEN ss[1]
  ELSE ss[1] \o sep \o Join(Tail(ss), sep)

\* The number of positions of s that hold the character c.
Count(s, c) == Cardinality({i \in 1 .. Len(s) : s[i] = c})

\* C12: for a line that contains ">>", parseEvent returns an event; its type
\* is the text before the first ">>" of the line (the type followed by ">>"
\* starts the line and no ">>" begins earlier), and its fields are the text
\* after that ">>" cut at every comma, in order: no field holds a comma,
\* there is one field more than there are commas, and the fields joined by
\* commas give that text back, a later ">>" included.
C12_ParseSplitsAtFirstDelim ==
  (nLines = 1 /\ Contains(line, Delim)) =>
    /\ Len(parsed) = 1
    /\ LET e    == parsed[1]
           at   == Len(e.Type) + 1
           rest == SubSeq(line, at + 2, Len(line))
       IN /\ OccursAt(line, Delim, at)
          /\ SubSeq(line, 1, at - 1) = e.Type
          /\ \A j \in 1 .. at - 1 : ~OccursAt(line, Delim, j)
          /\ Join(e.Data, Comma) = rest
          /\ Len(e.Data) = Count(rest, ",") + 1
          /\ \A k \in 1 .. Len(e.Data) : Count(e.Data[k], ",") = 0

\* Witness: a parsed line whose text after the first ">>" holds a comma and
\* another ">>".
C12_Witness ==
  /\ nLines = 1 /\ Len(parsed) = 1
  /\ Len(parsed[1].Data) = 2
  /\ \E k \in 1 .. 2 : Contains(parsed[1].Data[k], Delim)

\* ---- C13 ------------------------------------------------------------------
\* C13: when the reader has read a line without ">>", no event comes out of
\* it and dispatchEvent is not called: the parsed sequence, the queues and
\* the registry are as before, nothing has failed, and the reader is back
\* at scanner.Scan() for the next line.
C13_NoiseLineIsSkipped ==
  [][(nLines' = nLines + 1 /\ ~Contains(line', Delim)) =>
       /\ parsed' = parsed /\ nEv' = nEv
       /\ pc'[Reader] = "r_scan"
       /\ fault' = None
       /\ UNCHANGED <<listeners, buf, closed, readers, eventConn>>]_vars

\* Witness: the first line read held no ">>", the second was parsed and is
\* being dispatched.
C13_Witness ==
  /\ nLines = 2 /\ Len(parsed) = 1 /\ Contains(line, Delim)
  /\ pc[Reader] = "d_loop"

\* ---- C14 ------------------------------------------------------------------
\* C14: a connection that has been closed or has ended is never open again,
\* and a step that is not a call of StartEventListener dials nothing: it
\* leaves the number of connections, hc.eventConn and the number of reader
\* goroutines as they are.
C14_NoRedialOnItsOwn ==
  [][/\ \A k \in Conns : conns[k] # "open" => conns'[k] # "open"
     /\ (nStart' = nStart) =>
          /\ Len(conns') = Len(conns)
          /\ hcConn' = hcConn
          /\ Len(tasks') = Len(tasks)]_vars

\* Witness: the first stream is closed and its reader has returned; Close
\* saw that reader only, and a later StartEventListener call has opened a
\* second connection, which a second reader is reading.
C14_Witness ==
  /\ Len(tasks) = 2 /\ closedBus /\ closeSaw = {1}
  /\ tasks[1].st = "done" /\ conns[1] = "closed"
  /\ tasks[2].st = "scanning" /\ conns[2] = "open"

\* ---- C15 ------------------------------------------------------------------
\* C15: a reader goroutine that existed when Close was called does not go on
\* reading an open connection (so its loop ends), and when a reader has
\* returned the connection it was reading is closed.
C15_CloseEndsEveryReader ==
  /\ \A t \in closeSaw :
       tasks[t].st = "scanning" => conns[tasks[t].scanning] # "open"
  /\ \A t \in Tasks :
       tasks[t].st = "done" => conns[tasks[t].scanning] = "closed"

\* ---- C16 ------------------------------------------------------------------
\* C16: at most one reader goroutine is running, and no event is enqueued
\* twice on the queue of the subscriber.
C16_OneReaderNoDuplicates ==
  /\ Cardinality(Running) <= 1
  /\ \A e \in 1 .. MaxEmit : enq[e] <= 1

\* ---- C17 ------------------------------------------------------------------
\* C17: the steps in which the reader leaves its loop and returns change
\* neither the registry nor any queue, and when the reader has returned
\* without any Close or Unsubscribe, every queue Subscribe returned is still
\* registered and open and its consumer has received no end-of-stream.
C17_ReaderEndLeavesBusAlone ==
  /\ [](pc[Reader] = "done" =>
          \A h \in subRet : /\ h \in Registry
                            /\ ~closed[h]
                            /\ EOS \notin Range(got[h]))
  /\ [][(pc[Reader] \in {"r_scan", "r_exit"} /\ pc'[Reader] \in {"r_exit", "done"}
         /\ pc'[Reader] # pc[Reader]) =>
          UNCHANGED <<listeners, buf, closed, capOf, got>>]_vars

\* Witness: the reader has returned, the connection is closed, and a
\* registered open queue still holds an event.
C17_Witness ==
  /\ pc[Reader] = "done" /\ eventConn = "closed"
  /\ \E h \in subRet : h \in Registry /\ ~closed[h] /\ buf[h] # << >>

\* ---- C18 ------------------------------------------------------------------
\* C18: the handler's loop takes the closing of its queue as the end: what a
\* receive on the closed, drained queue yields is never handed to
\* processEvent.
C18_ClosedQueueEndsLoop ==
  /\ ~(hpc = "process" /\ hEv = EOS)
  /\ EOS \notin Range(handled)

\* ---- C19 ------------------------------------------------------------------
\* The number of invocations of callback cb with the event e that have been
\* started.
Started(cb, e) ==
  Cardinality({i \in 1 .. Len(spawned) : spawned[i] = [cb |-> cb, ev |-> e]})

\* The events that were enqueued on the handler's queue.
Queued ==
  IF hEvents = Foreign THEN {}
  ELSE (Range(handled) \ {EOS}) \cup Range(buf[hEvents])

C20_InvocationsBeginInEventOrder ==
  \A i, j \in 1 .. Len(begun) :
    (/\ i < j
     /\ spawned[begun[i]].cb = spawned[begun[j]].cb
     /\ spawned[begun[i]].ev # EOS /\ spawned[begun[j]].ev # EOS) =>
      spawned[begun[i]].ev < spawned[begun[j]].ev

\* ---- C21 ------------------------------------------------------------------
\* C21: the callbacks registered for one type are invoked, for one event of
\* that type, in the order of their registration: of two invocations with
\* the same event, the one of the callback registered later does not begin
\* before the one of the callback registered earlier.
C21_CallbacksBeginInRegistrationOrder ==
  \A i, j \in 1 .. Len(begun) :
    (i < j /\ spawned[begun[i]].ev = spawned[begun[j]].ev) =>
      spawned[begun[i]].cb < spawned[begun[j]].cb

\* ---- C22 ------------------------------------------------------------------
\* C22: a callback that never returns or that faults prevents no other
\* invocation: under fair scheduling every invocation processEvent has
\* started, for the same event or for a later one, begins to run.
C22_EveryInvocationBegins ==
  \A i \in 1 .. MaxInvocations : (Len(spawned) >= i) ~> (i \in Range(begun))

\* ---- C23 ------------------------------------------------------------------
\* An optional sign followed by one or more digits.
IsDecimal(f) ==
  LET ds == IF f # << >> /\ f[1] \in {"+", "-"} THEN Tail(f) ELSE f IN
    ds # << >> /\ \A k \in 1 .. Len(ds) : IsDigit(ds[k])

\* strconv.Itoa: the decimal digits of n, with "-" in front when n < 0.
RECURSIVE Itoa(_)
Itoa(n) ==
  IF n < 0 THEN <<"-">> \o Itoa(0 - n)
  ELSE IF n < 10 THEN <<Digits[n + 1]>>
  ELSE Itoa(n \div 10) \o <<Digits[(n % 10) + 1]>>

\* The decimal integer f as Itoa writes it: no "+", no leading zeros, no
\* "-0".
Canonical(f) ==
  LET neg == f[1] = "-"
      ds  == IF f[1] \in {"+", "-"} THEN Tail(f) ELSE f
      sig == IF Significant(ds) = << >> THEN <<"0">> ELSE Significant(ds)
  IN  IF neg /\ sig # <<"0">> THEN <<"-">> \o sig ELSE sig

\* The number of digits of the largest int.
IntDigits == Len(IntMax)

\* C23 as claimed: the callback registered with OnWorkspaceChange is called
\* with the integer value of the first field as id whenever that field is a
\* decimal integer, and with id 0 and the first field as name when it is
\* not.
C23_DecimalFieldGivesItsValue ==
  \A k \in 1 .. Len(calls) :
    LET f  == EventOf(spawned[calls[k].inv].ev).Data[1]
        id == calls[k].args[1]
    IN  IF IsDecimal(f) THEN Itoa(id) = Canonical(f)
                        ELSE id = 0 /\ calls[k].args[2] = f

\* C23, amended: for a workspace event, the callback registered with
\* OnWorkspaceChange is called once, with the first field as the name; the
\* id is the integer the first field denotes when that field is a decimal
\* integer (an optional sign and digits) within the range of int, and 0
\* when it is not numeric or not within that range.  Events of other types
\* and lines that are no event call nothing.
C23_WorkspaceIdIsFirstField ==
  /\ \A k \in 1 .. Len(calls) :
       LET e  == EventOf(spawned[calls[k].inv].ev)
           f  == e.Data[1]
           id == calls[k].args[1]
       IN  /\ e.Type = Workspace
           /\ calls[k].args[2] = f
           /\ IF IsDecimal(f) /\ Len(f) < IntDigits
                THEN Itoa(id) = Canonical(f)
                ELSE id = 0
  /\ \A i \in ended :
       Cardinality({k \in 1 .. Len(calls) : calls[k].inv = i}) = 1
  /\ \A k \in 1 .. Len(handled) :
       EventOf(handled[k]).Type # Workspace =>
         \A i \in 1 .. Len(spawned) : spawned[i].ev # handled[k]

\* Witness: the line "workspace>>3" has been read and the callback was
\* called with id 3.
C23_Witness ==
  /\ line = Workspace \o Delim \o <<"3">>
  /\ calls # << >> /\ calls[1].args = <<3, <<"3">> >>

\* ---- C24 ------------------------------------------------------------------
\* C24: for any sequence of Start and Stop calls on one handler, at the
\* step at which Stop returns the registry of the bus holds no queue the
\* handler subscribed.
C24_StopLeavesNoQueue ==
  [][(hCall = "stop" /\ hCall' = "none") => (Registry \cap subRet)' = {}]_vars

\* ---- C25 ------------------------------------------------------------------
\* sendCommand has returned to the running call.
Returned == cmd.pc \in {"returned", "done"}

\* C25: a sendCommand whose dial fails returns the connect-failure error
\* and no bytes after exactly one dial, without a write or a read; it does
\* not dial again and raises no fault.
C25_DialFailureReturnsAtOnce ==
  /\ cmd.dials <= 1
  /\ (Returned /\ cmd.conn = 0) =>
       /\ cmd.err = "failed to connect to hyprland"
       /\ cmd.data = NoData
       /\ cmd.dials = 1 /\ cmd.writes = 0 /\ cmd.reads = 0
       /\ Len(cmdConns) < nCalls
       /\ Alive

\* Witness: the second call, a query, has returned after its dial failed,
\* the first call having got a response.
C25_Witness ==
  /\ nCalls = 2 /\ cmd.pc = "done" /\ cmd.conn = 0
  /\ cmd.q = "GetMonitors" /\ cmd.ret.err = "failed to connect to hyprland"
  /\ Len(cmdConns) = 1

\* ---- C26 ------------------------------------------------------------------
\* C26: every sendCommand opens at most one connection, and the connection
\* is closed when the call has returned, whether the write failed, the read
\* failed or both succeeded; no step of a call changes the signature, the
\* event connection or the registry of the client.
C26_OneConnectionClosedOnReturn ==
  /\ [](/\ Len(cmdConns) <= nCalls
        /\ \A k \in 1 .. Len(cmdConns) :
             cmdConns[k].st = "open" => k = cmd.conn /\ ~Returned
        /\ Returned =>
             \/ cmd.err = "failed to connect to hyprland" /\ cmd.conn = 0
             \/ cmd.conn = Len(cmdConns) /\ cmdConns[cmd.conn].st = "closed")
  /\ [][cmd' # cmd =>
          UNCHANGED <<signature, hcConn, conns, listeners, eventConn>>]_vars

\* Witness: the second call has returned after a write error, the event
\* listener is started and a subscriber registered, and both connections
\* are closed.
C26_Witness ==
  /\ nCalls = 2 /\ Returned /\ cmd.err = "write failed"
  /\ Len(cmdConns) = 2
  /\ cmdConns[1].st = "closed" /\ cmdConns[2].st = "closed"
  /\ hcConn # 0 /\ listeners # << >>

\* ---- C27 ------------------------------------------------------------------
\* C27: a sendCommand that succeeds has read once and returns what that
\* read gave: the first bytes of the response, at most 16384 of them, so
\* that a response of more than 16384 bytes comes back cut short with a nil
\* error.
C27_SingleReadPrefix ==
  (Returned /\ cmd.conn # 0 /\ cmd.err = Nil) =>
    /\ cmd.writes = 1 /\ cmd.reads = 1
    /\ cmd.data.n >= 1 /\ cmd.data.n <= BufSize
    /\ cmd.data.n <= cmd.data.of
    /\ cmd.data.of > BufSize => cmd.data.n < cmd.data.of

\* Witness: a response of 16385 bytes has come back as 16384 bytes with a
\* nil error.
C27_Witness ==
  /\ Returned /\ cmd.err = Nil
  /\ cmd.data.of = BufSize + 1 /\ cmd.data.n = BufSize

\* ---- C28 ------------------------------------------------------------------
\* C28: NewHyprlandClient returns an error and no client when the signature
\* is not set or is empty in the environment, and nothing is done without a
\* client; when it returns a client, the signature of the client is the one
\* of the environment after every later operation, and every command socket
\* dialed is the one of that signature.
C28_SignatureFromEnvironmentForGood ==
  IF ~env.set \/ env.value = ""
    THEN /\ session.client = << >> /\ session.err # Nil
         /\ nCalls = 0 /\ nStart = 0 /\ nextCh = 1
    ELSE /\ session.client # << >> /\ session.err = Nil
         /\ signature = env.value
         /\ \A k \in 1 .. Len(cmdConns) :
              cmdConns[k].path = <<"/tmp/hypr/", env.value, "/.socket.sock">>

\* Witness: the client of "abc123" has sent two commands, started the event
\* listener, subscribed and unsubscribed a queue and was closed.
C28_Witness ==
  /\ signature = "abc123"
  /\ nCalls = 2 /\ Len(cmdConns) = 2 /\ cmd.pc = "done"
  /\ nStart > 0 /\ unsubRet # {} /\ closeRet

\* ---- C29 ------------------------------------------------------------------
\* The positions of the monitors flagged focused in the list ms.
FocusedIn(ms) == {k \in 1 .. Len(ms) : ms[k].Focused}

\* C29: when the list of monitors has been received and decoded,
\* GetActiveMonitor returns the monitor flagged focused when exactly one is,
\* and no monitor and the error "no focused monitor found", which is not
\* the error of a failed connection, when none is.
C29_ActiveMonitorIsTheFocusedOne ==
  (/\ cmd.pc = "done" /\ cmd.q = "GetActiveMonitor"
   /\ cmd.err = Nil /\ cmd.data.doc.kind = "array") =>
    LET ms == cmd.data.doc.items IN
      /\ Cardinality(FocusedIn(ms)) = 1 =>
           /\ cmd.ret.err = Nil
           /\ \E k \in FocusedIn(ms) :
                cmd.ret.val = <<[index |-> k, mon |-> ms[k]]>>
      /\ FocusedIn(ms) = {} =>
           /\ cmd.ret.val = << >>
           /\ cmd.ret.err = "no focused monitor found"
           /\ cmd.ret.err # "failed to connect to hyprland"

\* Witness: of two monitors the second is focused, and it was returned.
C29_Witness ==
  /\ cmd.pc = "done" /\ cmd.q = "GetActiveMonitor" /\ cmd.err = Nil
  /\ cmd.data.doc.kind = "array"
  /\ cmd.data.doc.items = <<[Focused |-> FALSE], [Focused |-> TRUE]>>
  /\ cmd.ret.val # << >> /\ cmd.ret.val[1].index = 2

\* ---- C30 ------------------------------------------------------------------
\* encoding/json accepts the text doc for the target of query q.
Decodable(q, doc) ==
  \/ q \in {"GetActiveWorkspace", "GetActiveWindow"}
       /\ doc.kind \in {"object", "null"}
  \/ q \in {"GetWorkspaces", "GetWindows", "GetMonitors"}
       /\ doc.kind \in {"array", "null"}

EndsAtDelim(l) == Len(l) >= 2 /\ Index(l, Delim) = Len(l) - 1

\* C31: every event parseEvent returns has at least one field; for a line
\* that is a type followed by ">>" and nothing more, the event has that type
\* and exactly one field, the empty string.
C31_EventHasAField ==
  nLines = 1 =>
    /\ \A k \in 1 .. Len(parsed) : Len(parsed[k].Data) >= 1
    /\ EndsAtDelim(line) =>
         parsed = <<[Type |-> SubSeq(line, 1, Len(line) - 2),
                     Data |-> << << >> >>]>>

\* Witness: a parsed line made of a non-empty type and the ">>" that ends it.
C31_Witness ==
  /\ nLines = 1 /\ Len(line) >= 3 /\ EndsAtDelim(line)
  /\ Len(parsed) = 1

\* ---- C32 ------------------------------------------------------------------
\* C32: every event a callback is invoked with is an event parseEvent
\* returned for a line of the stream (an element of `parsed`); none is the
\* value a receive on the closed queue yields.
C32_CallbacksGetDispatchedEventsOnly ==
  \A i \in 1 .. Len(begun) : spawned[begun[i]].ev \in 1 .. Len(parsed)

\* ---- C33 ------------------------------------------------------------------
\* C33: whatever Unsubscribe, Close and Stop calls are made and however they
\* interleave, no close runs on a subscriber queue that is already closed
\* (in Go that close would panic).
C33_NoQueueClosedTwice == fault # "close of closed channel"

\* Witness: the handler's queue is closed and out of the registry, and both a
\* Close and an Unsubscribe of that queue have returned without a fault: the
\* later of the two met the queue already closed.
C33_Witness ==
  /\ Alive /\ closeRet /\ stopChan /\ hCall = "none"
  /\ hEvents # Foreign /\ closed[hEvents] /\ hEvents \in unsubRet
  /\ pc["c2"] = "idle" /\ Registry = {}

\* ---- C34 ------------------------------------------------------------------
\* C34: Stop raises no fault in any state of the handler: not before Start,
\* not after Start and not when Stop has been called before.
C34_StopNeverFaults == fault # "close of closed channel h.stopChan"

\* ---- C35 ------------------------------------------------------------------
\* C35: when Stop has closed h.stopChan of a started handler, the loop
\* handleEvents returns at last, whatever is buffered in its queue.
C35_StoppedLoopReturns ==
  (stopChan /\ hpc # "none") ~> (hpc = "returned")

\* Witness: the loop has returned after Stop with an event left in its queue.
C35_Witness ==
  /\ stopChan /\ hpc = "returned"
  /\ hEvents # Foreign /\ buf[hEvents] # << >>

\* ---- C36 ------------------------------------------------------------------
\* C36 as claimed: once a Close has returned the registry is empty, whatever
\* is called afterwards.
C36_RegistryStaysEmptyAfterClose == closeRet => Registry = {}

\* C36, amended: the registry is empty when Close returns, and after a Close
\* has returned only a step of Subscribe makes the empty registry non-empty;
\* the queue Subscribe registers then is open.
C36_EmptyUntilSubscribe ==
  /\ [](\A p \in Callers : pc[p] = "c_unlock" => Registry = {})
  /\ [][(closeRet /\ Registry = {} /\ Registry' # {}) =>
          \E p \in Callers :
            /\ pc[p] = "idle" /\ pc'[p] = "s_unlock"
            /\ Registry' = {loc'[p].ch} /\ ~closed'[loc'[p].ch]]_vars

\* Witness: a Close has returned and a queue subscribed afterwards is
\* registered and open.
C36_Witness ==
  /\ closeRet /\ Alive
  /\ \E h \in Registry : ~closed[h] /\ h \in subRet
  /\ \A p \in Callers : pc[p] = "idle"

\* ---- C37 ------------------------------------------------------------------
\* The dial of the running Start has failed and Start has not yet returned.
DialFailed ==
  hCall = "start" /\ nStart > mark.nStart /\ Len(conns) = mark.conns

\* C37: a Start whose dial fails changes nothing.  The failing dial leaves
\* the bus, the connections, the reader tasks and the handler as they are;
\* from there Start does not subscribe and starts no loop (no queue, reader
\* task or loop has been added since Start was called); and its return, the
\* `return err`, leaves the bus, the listener and the handler's queue, stop
\* channel and loops as they are.
C37_FailedStartChangesNothing ==
  /\ [](DialFailed =>
          /\ nextCh = mark.nextCh /\ Len(tasks) = mark.conns
          /\ pc["c1"] = "idle" /\ writer = None
          /\ ~SubscribePending /\ ~ENABLED Start_GoLoop("c1"))
  /\ [][(DialPending /\ nStart' > nStart /\ Len(conns') = Len(conns)) =>
          UNCHANGED <<busVars, conns, tasks, hcConn, handler>>]_vars
  /\ [][(DialFailed /\ hCall' # hCall) =>
          /\ hCall' = "none"
          /\ UNCHANGED <<busVars, listener, hEvents, stopChan, loops>>]_vars

\* Witness: the first Start has failed and returned: nothing is registered,
\* no reader task and no loop exists.
C37_Witness ==
  /\ hCall = "none" /\ nStart = 1 /\ conns = << >>
  /\ Registry = {} /\ nextCh = 1 /\ tasks = << >> /\ loops = << >>

\* ---- C38 ------------------------------------------------------------------
\* The number of fields a typed callback decodes.
Decodes(kind) ==
  CASE kind \in {"activewindow", "focusedmon"} -> 2
    [] kind = "openwindow" -> 4
    [] OTHER -> 1

\* The kind of the closure that invocation i runs.
KindOf(i) == (CHOOSE c \in closures : c.cb = spawned[i].cb).kind

\* The calls invocation i has made.
CallsOf(i) == SelectSeq(calls, LAMBDA c : c.inv = i)

\* C38: no step raises a fault; an invocation that has run to its end has
\* called the typed callback once when its event carries at least the number
\* of fields the callback decodes, and not at all when it carries fewer; the
\* arguments are made of the first fields only, as many as the callback
\* decodes (for fullscreen, whether the first field is "1"), so the fields
\* beyond them play no part.
C38_TypedCallbackGetsItsFields ==
  /\ Alive
  /\ \A i \in ended :
       LET kind == KindOf(i)
           data == EventOf(spawned[i].ev).Data
           need == Decodes(kind)
       IN  IF Len(data) < need
             THEN CallsOf(i) = << >>
             ELSE /\ Len(CallsOf(i)) = 1
                  /\ LET args == CallsOf(i)[1].args IN
                       CASE kind = "workspace"  -> args[2] = data[1]
                         [] kind = "fullscreen" ->
                              args = <<data[1] = <<"1">> >>
                         [] OTHER -> args = SubSeq(data, 1, need)

\* Witness: the callback of OnActiveWindow was called with the class and
\* the first part of a title that holds a comma.
C38_Witness ==
  \E i \in ended :
       /\ KindOf(i) = "activewindow"
       /\ Len(EventOf(spawned[i].ev).Data) = 3
       /\ CallsOf(i) = <<[inv |-> i, args |-> <<FieldAt(2), FieldAt(3)>>]>>

====
